---- MODULE Spec2Model ----
(***************************************************************************)
(* Two programs of the repository.                                         *)
(*                                                                         *)
(* LRUCacheWithTTL (src/LRU-ALGORITHM/cache-lru.py): a bounded in-memory   *)
(* key-value store with a hash index (self.cache) and a doubly linked      *)
(* recency list between two sentinel nodes (self.head, self.tail).         *)
(* Every public method is one action: the canonical form of the cache is   *)
(* single-threaded and each method runs to completion.  The clock          *)
(* (time.time() * 1000) is the integer variable now; a method reads it     *)
(* once, and Tick advances it between methods.                             *)
(*                                                                         *)
(* The order service (src/main.py): orders with idempotent creation,       *)
(* role-based access, versioned status updates, a rate limiter and a       *)
(* payment webhook processed in the background.  Its handlers are the      *)
(* actions of the specifications SpecCreate, SpecOrders, SpecStatus,       *)
(* SpecRateLimit, SpecWebhook and SpecOrderCache, each over the part of    *)
(* the service it exercises; the cache takes no part in them, and the      *)
(* service none in the specifications of the cache.                        *)
(*                                                                         *)
(* The cache statement by statement (SpecOneThread, SpecThreads): the      *)
(* methods of LRUCacheWithTTL run one statement per step, by one thread    *)
(* or by two threads that share the object, which has no lock.             *)
(***************************************************************************)
EXTENDS Integers, Sequences, FiniteSets, TLC

\* ---------------------------------------------------------------- bounds
MaxCap == 2
MaxTTL == 2
MaxTime == 3

KeyOrder == <<"a", "b", "c", "d">>
Keys == {"a", "b", "c"}
\* One key more than the heap of the model has slots for.
MoreKeys == {KeyOrder[i] : i \in 1 .. Len(KeyOrder)}
Values == {"v1", "v2"}
\* The arguments a caller passes: those the methods accept, and, for the
\* calls the methods reject, a negative one, zero and the smallest valid one.
Capacities == 1 .. MaxCap
TTLs == 1 .. MaxTTL
AnyCapacities == -1 .. MaxCap
AnyTTLs == -1 .. 1

\* ------------------------------------------------------------ the heap
\* Python's None, for keys, values and node references alike.
None == "None"

\* Node objects: the two sentinels and the records' nodes.  A slot of
\* NodeSlots that no reference reaches is garbage and holds FreeNode.
NodeSlots == <<"n1", "n2", "n3">>
NodeIds == {NodeSlots[i] : i \in 1 .. Len(NodeSlots)}
head == "head"
tail == "tail"
Refs == NodeIds \cup {head, tail}

Node(key, value, expire_time) ==
    [key |-> key, value |-> value, expire_time |-> expire_time,
     prev |-> None, next |-> None]

FreeNode == Node(None, None, 0)

VARIABLES
    constructed,   \* __init__ has returned normally
    capacity,      \* self.capacity
    cache,         \* self.cache: key -> node reference
    node,          \* the heap: node reference -> Node
    now,           \* the clock in milliseconds
    last,          \* the last call: its arguments, its outcome, the branch taken
    recency,       \* history: tracked keys, most recent successful put or hit first
    ctorRaised     \* history: the exception a failed construction raised

\* The order service (src/main.py) keeps its state outside the cache object:
\* two tables, the redis store, the rate limiter's dictionary, the requests
\* being handled and the background tasks.
VARIABLES
    orders,              \* table orders: the rows, in id order
    payment_retries,     \* table payment_retries: the rows
    redis,               \* the redis store: cache key -> entry
    rate_limit_storage,  \* rate_limit_storage: key -> admitted timestamps
    clock,               \* time.time() and datetime.utcnow(), in seconds
    requests,            \* worker -> the request it is handling
    tasks,               \* the background tasks of process_webhook_with_retry
    response,            \* the last response sent, or the last task step
    patched,             \* history: <<order id, expected version>> of the
                         \* status updates answered 200
    admitted             \* history: key -> the times of all the requests
                         \* the rate limiter let through

\* Callers that share one cache object without a lock (the cache has none):
\* each thread's position in the method it runs and the method's locals.
VARIABLES
    threads,       \* thread -> frame of the call it is in
    overlapped,    \* history: a call began while another call was running
    raised         \* history: the exceptions the threads' calls have raised

threadVars == <<threads, overlapped, raised>>

cacheVars ==
    <<constructed, capacity, cache, node, now, last, recency, ctorRaised,
      threads, overlapped, raised>>

svcVars ==
    <<orders, payment_retries, redis, rate_limit_storage, clock, requests,
      tasks, response, patched, admitted>>

vars ==
    <<constructed, capacity, cache, node, now, last, recency, ctorRaised,
      orders, payment_retries, redis, rate_limit_storage, clock, requests,
      tasks, response, patched, admitted, threads, overlapped, raised>>

\* ------------------------------------------------------- dict helpers
EmptyDict == [k \in {} |-> None]

DictDel_kept(C, k) == C

DictDel(C, k) == [x \in DOMAIN C \ {k} |-> C[x]]

DictSet_dropped(C, k, n) == C

DictSet(C, k, n) == [x \in DOMAIN C \cup {k} |-> IF x = k THEN n ELSE C[x]]

\* A node that no reference reaches any more is collected.
Collect(N, n) == [N EXCEPT ![n] = FreeNode]

\* The node a new Node(...) call returns: a slot not in use.  Which one is
\* the allocator's business; the model takes the first free slot counting
\* from the key's position, so that equal heaps have equal names.
NewRef(C, k) ==
    LET used == {C[x] : x \in DOMAIN C}
        L == Len(NodeSlots)
        at(j) == NodeSlots[((j - 1) % L) + 1]
        i0 == CHOOSE i \in 1 .. Len(KeyOrder) : KeyOrder[i] = k
        d == CHOOSE j \in 0 .. (L - 1) :
                 /\ at(i0 + j) \notin used
                 /\ \A m \in 0 .. (j - 1) : at(i0 + m) \in used
    IN  at(i0 + d)

\* ------------------------------------------------- linked-list methods
remove_node(N, n) ==
    LET N1 == [N EXCEPT ![N[n].prev].next = N[n].next]
    IN  [N1 EXCEPT ![N1[n].next].prev = N1[n].prev]

\* _add_to_head at the wrong end: the node is linked in before tail.
add_to_head_at_tail(N, n) ==
    LET N1 == [N EXCEPT ![n].next = tail]
        N2 == [N1 EXCEPT ![n].prev = N1[tail].prev]
        N3 == [N2 EXCEPT ![N2[tail].prev].next = n]
    IN  [N3 EXCEPT ![tail].prev = n]

\* _add_to_head without line 43: the old first node keeps its prev.
add_to_head_no_back(N, n) ==
    LET N1 == [N EXCEPT ![n].prev = head]
        N2 == [N1 EXCEPT ![n].next = N1[head].next]
    IN  [N2 EXCEPT ![head].next = n]

add_to_head(N, n) ==
    LET N1 == [N EXCEPT ![n].prev = head]
        N2 == [N1 EXCEPT ![n].next = N1[head].next]
        N3 == [N2 EXCEPT ![N2[head].next].prev = n]
    IN  [N3 EXCEPT ![head].next = n]

\* A hit that leaves the node where it is.
move_to_head_stay(N, n) == N

move_to_head(N, n) == add_to_head(remove_node(N, n), n)

\* _remove_tail returns lru_node(N) and leaves the list remove_tail(N).
lru_node_front(N) == N[head].next

lru_node(N) == N[tail].prev

remove_tail(N) == remove_node(N, lru_node(N))

is_expired_late(N, n, t) == t > N[n].expire_time

is_expired(N, n, t) == t >= N[n].expire_time

\* A sweep that does not test expiry: every key is collected.
expired_keys_all(C, N, t) == DOMAIN C

expired_keys(C, N, t) == {k \in DOMAIN C : is_expired(N, C[k], t)}

RECURSIVE cleanup_loop(_, _, _)
cleanup_loop(C, N, ks) ==
    IF ks = {} THEN [cache |-> C, node |-> N]
    ELSE LET k == CHOOSE x \in ks : TRUE
         IN  cleanup_loop(DictDel(C, k),
                          Collect(remove_node(N, C[k]), C[k]),
                          ks \ {k})

\* A sweep that stops at the first expired key it removes.
cleanup_expired_one(C, N, t) ==
    LET ks == expired_keys(C, N, t)
    IN  cleanup_loop(C, N, IF ks = {} THEN {} ELSE {CHOOSE x \in ks : TRUE})

cleanup_expired_skipped(C, N, t) == [cache |-> C, node |-> N]

cleanup_expired(C, N, t) == cleanup_loop(C, N, expired_keys(C, N, t))

size_unexpired == Cardinality({k \in DOMAIN cache : ~is_expired(node, cache[k], now)})

size == Cardinality(DOMAIN cache)

\* The checks that guard the methods.
\* key in self.cache, the test that sends put to its update branch.
is_tracked_never(C, k) == FALSE

is_tracked(C, k) == k \in DOMAIN C

invalid_capacity_negative(cap) == cap < 0

invalid_capacity(cap) == cap <= 0

invalid_ttl_negative(ttl_ms) == ttl_ms < 0

invalid_ttl(ttl_ms) == ttl_ms <= 0

at_capacity_exceeded(C, cap) == Cardinality(DOMAIN C) > cap

at_capacity(C, cap) == Cardinality(DOMAIN C) >= cap

\* What __init__ leaves of the list: the sentinels linked to each other.
init_nodes ==
    [r \in Refs |->
        IF r = head THEN [FreeNode EXCEPT !.next = tail]
        ELSE IF r = tail THEN [FreeNode EXCEPT !.prev = head]
        ELSE FreeNode]

\* clear relinks the sentinels; the nodes between them become garbage.
clear_nodes_head_only(N) ==
    [r \in Refs |->
        IF r = head THEN [N[head] EXCEPT !.next = tail]
        ELSE IF r = tail THEN N[tail]
        ELSE FreeNode]

clear_nodes(N) ==
    [r \in Refs |->
        IF r = head THEN [N[head] EXCEPT !.next = tail]
        ELSE IF r = tail THEN [N[tail] EXCEPT !.prev = head]
        ELSE FreeNode]

\* put's branch for a key already present: the node is overwritten in place.
update_node_value_only(N, n, value, expire_time) ==
    [N EXCEPT ![n].value = value]

\* An update that writes to the first node of the list instead of the node
\* the index gave.
update_node_at_head(N, n, value, expire_time) ==
    [N EXCEPT ![N[head].next].value = value,
              ![N[head].next].expire_time = expire_time]

update_node(N, n, value, expire_time) ==
    [N EXCEPT ![n].value = value, ![n].expire_time = expire_time]

\* get's branch for an expired record: the node leaves the list and the key
\* the index.
drop_expired_all(C, N, k) == [cache |-> EmptyDict, node |-> clear_nodes(N)]

drop_expired(C, N, k) ==
    [cache |-> DictDel(C, k), node |-> Collect(remove_node(N, C[k]), C[k])]

\* What get(k) returns at time t.
get_result(C, N, t, k) ==
    IF k \notin DOMAIN C THEN None
    ELSE IF is_expired(N, C[k], t) THEN None
    ELSE N[C[k]].value

\* ------------------------------------------------------ call records
\* last describes the call that has just returned: its arguments (key, value,
\* num: the ttl_ms or the capacity), what it returned (result; count for
\* size) or raised, the branch it took, whether the record it found was
\* expired (stale), the keys its sweep removed and the key it evicted.
\* For clear, count is the number of entries it dropped.
NoCall ==
    [op |-> "none", key |-> None, value |-> None, num |-> 0,
     result |-> None, count |-> 0, raised |-> None, message |-> None,
     branch |-> None, stale |-> FALSE, swept |-> {}, evicted |-> None]

Call(op, key, value, num) ==
    [NoCall EXCEPT !.op = op, !.key = key, !.value = value, !.num = num]

ValueError(c, msg) == [c EXCEPT !.raised = "ValueError", !.message = msg]

\* The tracked keys in the order of their last successful put or hit.
Touch(k, S) == <<k>> \o SelectSeq(S, LAMBDA x : x # k)

Keep(S, ks) == SelectSeq(S, LAMBDA x : x \in ks)

\* ------------------------------------------- order service: start state
\* The workers (threads or processes) that serve requests side by side.
Workers == {"w1", "w2"}

\* No row (first() returned None).
NoOrder ==
    [id |-> 0, user_id |-> 0, items |-> <<>>, status |-> None,
     client_token |-> None, total_amount |-> 0, version |-> 0,
     updated_at |-> 0]

\* A worker with no request in hand.  A request keeps the handler's
\* arguments and locals: order is the row object the session loaded.
Idle ==
    [op |-> "idle", pc |-> "idle", user |-> 0, client_token |-> None,
     items |-> <<>>, order_id |-> 0, status |-> None, has_version |-> FALSE,
     version |-> 0, order |-> NoOrder, updated_at |-> 0]

\* A response: its status code, the detail of the HTTPException or the
\* message of the body, and the orders whose data the body carries.  For
\* create_order it also recalls the client_token and items of the request.
NoResponse ==
    [op |-> "none", worker |-> None, user |-> 0, status_code |-> 0,
     detail |-> None, orders |-> <<>>, total |-> 0, scheduled |-> FALSE,
     client_token |-> None, items |-> <<>>]

SvcInit ==
    /\ orders = <<>>
    /\ payment_retries = {}
    /\ redis = EmptyDict
    /\ rate_limit_storage = EmptyDict
    /\ clock = 0
    /\ requests = [w \in Workers |-> Idle]
    /\ tasks = {}
    /\ response = NoResponse
    /\ patched = {}
    /\ admitted = EmptyDict

\* ------------------------------------------------- threads: start state
Threads == {"t1", "t2"}

\* A thread that is in no call.  In a call, the frame holds the method
\* (op), the statement it is at (pc, the line of cache-lru.py), the
\* arguments and the locals.
NoFrame ==
    [pc |-> "idle", op |-> "none", key |-> None, value |-> None,
     ttl_ms |-> 0, expire_time |-> 0, node |-> None, new_node |-> None,
     lru_node |-> None, expired_keys |-> <<>>, items |-> <<>>,
     scanned |-> <<>>]

\* ------------------------------------------------------------ actions
Init ==
    /\ constructed = FALSE
    /\ capacity = 0
    /\ cache = EmptyDict
    /\ node = [r \in Refs |-> FreeNode]
    /\ now = 1
    /\ last = NoCall
    /\ recency = <<>>
    /\ ctorRaised = None
    /\ SvcInit
    /\ threads = [t \in Threads |-> NoFrame]
    /\ overlapped = FALSE
    /\ raised = {}

\* LRUCacheWithTTL(cap)
Construct(cap) ==
    /\ ~constructed
    /\ IF invalid_capacity(cap)
       THEN /\ last' = ValueError(Call("construct", None, None, cap),
                                  "Capacity must be positive")
            /\ ctorRaised' = last'.raised
            /\ UNCHANGED <<constructed, capacity, cache, node>>
       ELSE /\ constructed' = TRUE
            /\ capacity' = cap
            /\ cache' = EmptyDict
            /\ node' = init_nodes
            /\ last' = Call("construct", None, None, cap)
            /\ UNCHANGED ctorRaised
    /\ UNCHANGED <<now, recency>>
    /\ UNCHANGED <<svcVars, threadVars>>

\* get's branch for a key that is not in the index.
GetMiss_KeyError(k) ==
    /\ last' = [Call("get", k, None, 0) EXCEPT
                   !.branch = "miss", !.raised = "KeyError"]
    /\ UNCHANGED <<cache, node>>

GetMiss(k) ==
    /\ last' = [Call("get", k, None, 0) EXCEPT !.branch = "miss"]
    /\ UNCHANGED <<cache, node>>

\* cache.get(k)
Get(k) ==
    /\ constructed
    /\ IF k \notin DOMAIN cache
       THEN GetMiss(k)
       ELSE LET n == cache[k] IN
            IF is_expired(node, n, now)
            THEN /\ node' = drop_expired(cache, node, k).node
                 /\ cache' = drop_expired(cache, node, k).cache
                 /\ last' = [Call("get", k, None, 0) EXCEPT
                                !.branch = "expired", !.stale = TRUE]
            ELSE /\ node' = move_to_head(node, n)
                 /\ last' = [Call("get", k, None, 0) EXCEPT
                                !.branch = "hit", !.result = node[n].value]
                 /\ UNCHANGED cache
    /\ recency' = IF last'.branch = "hit" THEN Touch(k, recency)
                  ELSE Keep(recency, DOMAIN cache')
    /\ UNCHANGED <<constructed, capacity, now, ctorRaised>>
    /\ UNCHANGED <<svcVars, threadVars>>

\* cache.put(k, v, ttl_ms)
Put(k, v, ttl_ms) ==
    /\ constructed
    /\ IF invalid_ttl(ttl_ms)
       THEN /\ last' = ValueError(Call("put", k, v, ttl_ms), "TTL must be positive")
            /\ UNCHANGED <<cache, node, recency>>
       ELSE LET expire_time == now + ttl_ms IN
            /\ IF is_tracked(cache, k)
               THEN LET n == cache[k] IN
                    /\ node' = move_to_head(update_node(node, n, v, expire_time), n)
                    /\ last' = [Call("put", k, v, ttl_ms) EXCEPT
                                   !.branch = "update",
                                   !.stale = is_expired(node, n, now)]
                    /\ UNCHANGED cache
               ELSE LET full == at_capacity(cache, capacity)
                        swept == IF full THEN cleanup_expired(cache, node, now)
                                 ELSE [cache |-> cache, node |-> node]
                        evict == full /\ at_capacity(swept.cache, capacity)
                        lru == lru_node(swept.node)
                        C2 == IF evict THEN DictDel(swept.cache, swept.node[lru].key)
                              ELSE swept.cache
                        N2 == IF evict THEN Collect(remove_tail(swept.node), lru)
                              ELSE swept.node
                        new_node == NewRef(C2, k)
                        N3 == [N2 EXCEPT ![new_node] = Node(k, v, expire_time)]
                    IN  /\ cache' = DictSet(C2, k, new_node)
                        /\ node' = add_to_head(N3, new_node)
                        /\ last' = [Call("put", k, v, ttl_ms) EXCEPT
                                       !.branch = "insert",
                                       !.swept = DOMAIN cache \ DOMAIN swept.cache,
                                       !.evicted = IF evict THEN swept.node[lru].key
                                                   ELSE None]
            /\ recency' = Keep(Touch(k, recency), DOMAIN cache')
    /\ UNCHANGED <<constructed, capacity, now, ctorRaised>>
    /\ UNCHANGED <<svcVars, threadVars>>

\* cache.size()
Size ==
    /\ constructed
    /\ last' = [Call("size", None, None, 0) EXCEPT !.count = size]
    /\ UNCHANGED <<constructed, capacity, cache, node, now, recency, ctorRaised>>
    /\ UNCHANGED <<svcVars, threadVars>>

\* cache.clear()
Clear ==
    /\ constructed
    /\ cache' = EmptyDict
    /\ node' = clear_nodes(node)
    /\ recency' = <<>>
    /\ last' = [Call("clear", None, None, 0) EXCEPT !.count = size]
    /\ UNCHANGED <<constructed, capacity, now, ctorRaised>>
    /\ UNCHANGED <<svcVars, threadVars>>

\* Time passes between two calls.
Tick ==
    /\ now < MaxTime
    /\ now' = now + 1
    /\ last' = Call("tick", None, None, 0)
    /\ UNCHANGED <<constructed, capacity, cache, node, recency, ctorRaised>>
    /\ UNCHANGED <<svcVars, threadVars>>

Calls(caps, ttls) ==
    \/ \E cap \in caps : Construct(cap)
    \/ \E k \in Keys : Get(k)
    \/ \E k \in Keys, v \in Values, ttl_ms \in ttls : Put(k, v, ttl_ms)
    \/ Size
    \/ Clear
    \/ Tick

\* Spec: a caller that keeps to the methods' preconditions.
Next == Calls(Capacities, TTLs)

Spec == Init /\ [][Next]_vars

\* SpecAnyArgs: a caller that also passes capacities and TTLs the methods
\* reject.
NextAnyArgs == Calls(AnyCapacities, AnyTTLs)

SpecAnyArgs == Init /\ [][NextAnyArgs]_vars

\* SpecMoreKeys: a cache that holds as many records as the heap has slots,
\* and a caller with one key more than it holds, so that a put which
\* sweeps or evicts leaves two other records behind.  Every put asks for
\* the shortest ttl_ms, so records put at different times differ in their
\* expiry.
NextMoreKeys ==
    \/ Construct(Len(NodeSlots))
    \/ \E k \in MoreKeys : Get(k)
    \/ \E k \in MoreKeys, v \in Values : Put(k, v, 1)
    \/ Tick

SpecMoreKeys == Init /\ [][NextMoreKeys]_vars

\* ------------------------------------------------- what the claims read
Tracked == DOMAIN cache

ExpiresAt(k) == node[cache[k]].expire_time

ValueOf(k) == node[cache[k]].value

\* The tracked keys whose record is logically expired, and those still live.
ExpiredKeys == {k \in Tracked : ExpiresAt(k) <= now}

LiveKeys == {k \in Tracked : now < ExpiresAt(k)}

\* The step is a call of op (every action writes last).
Called(op) == last'.op = op

PutOk == Called("put") /\ last'.raised = None

\* A put that inserts a key the cache does not track yet.
PutNew == PutOk /\ last'.key \notin Tracked

\* ------------------------------------------------------------- claims

\* C1  Capacity invariant: in every state between two calls, and so after
\* every put, the number of tracked entries is at most the capacity.
C1_CapacityInvariant == constructed => size <= capacity

\* A put has evicted the LRU record of a full cache and the cache is full.
C1_Witness ==
    /\ last.op = "put"
    /\ last.evicted # None
    /\ size = capacity

\* C2  get never returns an expired value: a get of a tracked key whose
\* expires_at is at or before the clock returns None and removes the key
\* from the index and its node from the list; a get returns a value only
\* for a tracked key with now < expires_at, and then the stored value.
C2_GetNeverReturnsExpired ==
    [][Called("get") =>
         LET k == last'.key IN
         /\ (k \in Tracked /\ ExpiresAt(k) <= now) =>
               /\ last'.result = None
               /\ k \notin DOMAIN cache'
               /\ \A r \in Refs : node'[r].key # k
               /\ \A r \in Refs : node'[r].next # cache[k] /\ node'[r].prev # cache[k]
         /\ last'.result # None =>
               /\ k \in Tracked
               /\ now < ExpiresAt(k)
               /\ last'.result = ValueOf(k)
      ]_vars

\* A get found its key expired exactly at the boundary or later and
\* dropped it.
C2_Witness ==
    /\ last.op = "get"
    /\ last.branch = "expired"
    /\ last.key \notin Tracked
    /\ Tracked # {}

\* C3  Expiry preempts LRU eviction: a put of a new key into a cache at
\* capacity that tracks at least one expired record removes no unexpired
\* record; every key that was live before is tracked afterwards with its
\* value and expiry, together with the new key.
C3_ExpiryPreemptsEviction ==
    [][(PutNew /\ size >= capacity /\ ExpiredKeys # {}) =>
         /\ LiveKeys \subseteq DOMAIN cache'
         /\ last'.key \in DOMAIN cache'
         /\ \A k \in LiveKeys :
               /\ node'[cache'[k]].value = ValueOf(k)
               /\ node'[cache'[k]].expire_time = ExpiresAt(k)
      ]_vars

\* A put has swept an expired record out of a full cache of capacity two
\* or more, and the live record beside it is still tracked.
C3_Witness ==
    /\ last.op = "put"
    /\ last.swept # {}
    /\ last.evicted = None
    /\ Cardinality(Tracked) >= 2
    /\ size = capacity

\* C4  LRU victim choice: a put of a new key into a full cache that tracks
\* no expired record removes exactly one key, the tracked key whose last
\* successful put or hit-get is the oldest (the last element of recency),
\* and keeps every other key.
C4_LruVictim ==
    [][(PutNew /\ size >= capacity /\ ExpiredKeys = {}) =>
         /\ Tracked \ DOMAIN cache' = {recency[Len(recency)]}
         /\ DOMAIN cache' = (Tracked \ {recency[Len(recency)]}) \cup {last'.key}
         /\ last'.evicted = recency[Len(recency)]
      ]_vars

\* Capacity two, nothing expired, and a put of a third key has evicted one
\* of the two keys it found and kept the other.
C4_Witness ==
    /\ last.op = "put"
    /\ last.evicted # None
    /\ last.swept = {}
    /\ capacity = 2
    /\ Len(recency) = 2
    /\ recency[1] = last.key
    /\ Tracked = {recency[1], recency[2]}
    /\ LiveKeys = Tracked

\* C5  Update in place: a put of a tracked key, expired or not, leaves the
\* set of tracked keys and so size() unchanged, stores the new value and
\* expires_at = now + ttl in the key's own node, makes that node the first
\* after head, and a get that follows at once returns the new value.
C5_UpdateInPlace ==
    [][(PutOk /\ last'.key \in Tracked) =>
         LET k == last'.key IN
         /\ DOMAIN cache' = Tracked
         /\ Cardinality(DOMAIN cache') = size
         /\ cache'[k] = cache[k]
         /\ node'[cache'[k]].key = k
         /\ node'[cache'[k]].value = last'.value
         /\ node'[cache'[k]].expire_time = now + last'.num
         /\ node'[head].next = cache'[k]
         /\ node'[cache'[k]].prev = head
         /\ get_result(cache', node', now', k) = last'.value
      ]_vars

\* A put has overwritten a record that was expired and not yet swept, in a
\* cache that tracks another key too; the key is readable again.
C5_Witness ==
    /\ last.op = "put"
    /\ last.branch = "update"
    /\ last.stale
    /\ Cardinality(Tracked) >= 2
    /\ get_result(cache, node, now, last.key) = last.value

\* C6  Rejection has no side effect: a put with ttl <= 0 raises the TTL
\* error and leaves the index, the list (every node's links, value and
\* expires_at) and the capacity exactly as they were.
C6_RejectedPutNoEffect ==
    [][(Called("put") /\ last'.num <= 0) =>
         /\ last'.raised = "ValueError"
         /\ last'.message = "TTL must be positive"
         /\ UNCHANGED <<cache, node, capacity, constructed>>
      ]_vars

\* A put with ttl <= 0 of a key that is tracked, into a full cache, has been
\* rejected.
C6_Witness ==
    /\ last.op = "put"
    /\ last.num <= 0
    /\ last.raised # None
    /\ last.key \in Tracked
    /\ size = capacity
    /\ capacity >= 2

\* What a construction leaves: no cache for a capacity <= 0, an empty one
\* for a capacity >= 1; no method runs on a cache that was not constructed.
ConstructOutcome ==
    /\ (last.op = "construct" /\ last.num <= 0) =>
          /\ last.raised # None
          /\ ~constructed
    /\ (last.op = "construct" /\ last.num >= 1) =>
          /\ last.raised = None
          /\ constructed
          /\ capacity = last.num
          /\ size = 0
          /\ node = init_nodes
    /\ ~constructed => last.op \in {"none", "construct", "tick"}

\* A put has been rejected by a cache whose construction was rejected at
\* first.
BothRejections ==
    /\ last.op = "put"
    /\ last.raised # None
    /\ ctorRaised # None

\* C7 as stated: construction with capacity <= 0 fails and yields no cache,
\* construction with capacity >= 1 yields an empty cache, and the error of
\* the construction is of another kind than the error of a rejected put.
C7_DistinctErrorKinds ==
    /\ ConstructOutcome
    /\ BothRejections => last.raised # ctorRaised

\* C7 as amended: construction with capacity <= 0 raises
\* ValueError("Capacity must be positive") and yields no cache, construction
\* with capacity >= 1 yields an empty cache; a rejected put raises the same
\* kind of exception, ValueError, with another message.
C7_ConstructValueError ==
    /\ ConstructOutcome
    /\ (last.op = "construct" /\ last.num <= 0) =>
          /\ last.raised = "ValueError"
          /\ last.message = "Capacity must be positive"
    /\ BothRejections =>
          /\ last.raised = ctorRaised
          /\ last.message # "Capacity must be positive"

C7_Witness == BothRejections

\* What get(k) would return in the state before and after the step.
Readable(k) == get_result(cache, node, now, k)

ReadableNext(k) == get_result(cache', node', now', k)

\* The step is a put of another key that evicts k as the LRU record.
EvictedByPut(k) == PutOk /\ last'.evicted = k

\* The step writes k again: a put of k, which starts the guarantee anew for
\* the value and the expiry it stores.
Rewritten(k) == PutOk /\ last'.key = k

\* C8 as stated: after a put(k, v, ttl) with ttl > 0 get(k) returns v, and
\* it goes on returning v over every step after which the clock is still
\* before the record's expires_at and which is not the eviction of k by a
\* put of a new key.
C8_RetrievableUntilExpiryOrEviction ==
    [][/\ PutOk => ReadableNext(last'.key) = last'.value
       /\ \A k \in Keys :
            (/\ Readable(k) # None
             /\ now' < ExpiresAt(k)
             /\ ~EvictedByPut(k)
             /\ ~Rewritten(k))
            => ReadableNext(k) = Readable(k)
      ]_vars

\* C8 as amended: after a put(k, v, ttl) with ttl > 0 get(k) returns v, and
\* it goes on returning v over every step after which the clock is still
\* before the record's expires_at and which is neither the eviction of k by
\* a put of a new key nor a clear.
C8_RetrievableUntilRemoved ==
    [][/\ PutOk => ReadableNext(last'.key) = last'.value
       /\ \A k \in Keys :
            (/\ Readable(k) # None
             /\ now' < ExpiresAt(k)
             /\ ~EvictedByPut(k)
             /\ ~Rewritten(k)
             /\ ~Called("clear"))
            => ReadableNext(k) = Readable(k)
      ]_vars

\* A get returns the value of a key that is no longer the most recent one
\* written, after time has passed, in a full cache of two entries.
C8_Witness ==
    /\ last.op = "get"
    /\ last.branch = "hit"
    /\ last.result = ValueOf(last.key)
    /\ now > 1
    /\ capacity = 2
    /\ size = capacity

\* C9  clear is total and idempotent: clear can be called in every state of
\* a constructed cache; after it size() is 0, get returns None for every
\* key, head and tail are linked to each other, and index and list are
\* those of a freshly constructed cache; a clear that follows a clear
\* changes nothing.
C9_ClearResets ==
    /\ [](constructed => ENABLED Clear)
    /\ [][Called("clear") =>
            /\ Cardinality(DOMAIN cache') = 0
            /\ \A k \in Keys : ReadableNext(k) = None
            /\ node'[head].next = tail
            /\ node'[tail].prev = head
            /\ cache' = EmptyDict
            /\ node' = init_nodes
            /\ capacity' = capacity
            /\ last.op = "clear" => UNCHANGED <<cache, node>>
         ]_vars

\* clear has dropped two or more entries.
C9_Witness ==
    /\ last.op = "clear"
    /\ last.count >= 2
    /\ size = 0

\* C10  size() returns the number of index entries, expired ones included:
\* it is at least the number of unexpired tracked records, and the clock
\* advancing, past an expiry or not, does not change it.
C10_SizeCountsTracked ==
    [][/\ Called("size") =>
            /\ last'.count = Cardinality(DOMAIN cache')
            /\ last'.count >= Cardinality(LiveKeys')
       /\ Called("tick") => size' = size
      ]_vars

\* size() has counted a record that is expired and not yet swept, beside a
\* live one.
C10_Witness ==
    /\ last.op = "size"
    /\ last.count > Cardinality(LiveKeys)
    /\ LiveKeys # {}

\* ------------------------------------------- claims on the cache (2)
\* The nodes met from n on by following next up to tail, at most fuel of
\* them.
RECURSIVE walk(_, _, _)
walk(N, n, fuel) ==
    IF n = tail \/ n = None \/ fuel = 0 THEN <<>>
    ELSE <<n>> \o walk(N, N[n].next, fuel - 1)

\* The ledger: the nodes between the sentinels, most recent first.
Ledger == walk(node, node[head].next, Cardinality(NodeIds) + 1)

\* C20: index/ledger bijection.  Between operations the keys of the index
\* are the keys of the nodes reachable from head before tail, no key is
\* on two of those nodes, the walk ends at tail, and the index maps every
\* key to the ledger node that carries it.
C20_IndexLedgerBijection ==
    constructed =>
        /\ {node[Ledger[i]].key : i \in 1 .. Len(Ledger)} = DOMAIN cache
        /\ \A i, j \in 1 .. Len(Ledger) :
              node[Ledger[i]].key = node[Ledger[j]].key => i = j
        /\ Len(Ledger) <= Cardinality(NodeIds)
        /\ node[IF Ledger = <<>> THEN head ELSE Ledger[Len(Ledger)]].next = tail
        /\ \A k \in DOMAIN cache :
              /\ node[cache[k]].key = k
              /\ \E i \in 1 .. Len(Ledger) : Ledger[i] = cache[k]

\* Two records on the ledger right after a put that evicted the least
\* recently used record; the new record is first.
C20_Witness ==
    /\ constructed
    /\ Len(Ledger) = 2
    /\ Cardinality(DOMAIN cache) = 2
    /\ last.op = "put"
    /\ last.evicted # None
    /\ node[Ledger[1]].key = last.key

\* The nodes met from n on by following prev up to head, at most fuel of
\* them.
RECURSIVE walk_back(_, _, _)
walk_back(N, n, fuel) ==
    IF n = head \/ n = None \/ fuel = 0 THEN <<>>
    ELSE <<n>> \o walk_back(N, N[n].prev, fuel - 1)

\* The ledger read from the tail: least recent first.
LedgerBack == walk_back(node, node[tail].prev, Cardinality(NodeIds) + 1)

Reverse(s) == [i \in 1 .. Len(s) |-> s[Len(s) + 1 - i]]

\* C21: ledger well-formedness.  After every call of a constructed cache
\* (get, put and clear among them) the walk along next from head ends at
\* tail within as many steps as there are nodes and meets no node twice,
\* the walk along prev from tail ends at head and meets the same nodes in
\* the reverse order, and every node n on the ledger has n.prev.next = n
\* and n.next.prev = n.
C21_LedgerWellFormed ==
    constructed =>
        /\ Len(Ledger) <= Cardinality(NodeIds)
        /\ node[IF Ledger = <<>> THEN head ELSE Ledger[Len(Ledger)]].next = tail
        /\ \A i, j \in 1 .. Len(Ledger) : Ledger[i] = Ledger[j] => i = j
        /\ node[IF LedgerBack = <<>> THEN tail ELSE LedgerBack[Len(LedgerBack)]].prev = head
        /\ LedgerBack = Reverse(Ledger)
        /\ \A i \in 1 .. Len(Ledger) :
              LET n == Ledger[i] IN
              /\ node[n].prev \in Refs
              /\ node[n].next \in Refs
              /\ node[node[n].prev].next = n
              /\ node[node[n].next].prev = n

\* A hit has moved the record that was last on a ledger of two to the
\* front, after time has passed.
C21_Witness ==
    /\ last.op = "get"
    /\ last.branch = "hit"
    /\ Len(Ledger) = 2
    /\ LedgerBack = <<Ledger[2], Ledger[1]>>
    /\ node[Ledger[1]].key = last.key
    /\ now > 1

\* The ledger nodes whose record is unexpired, most recent first: what a
\* sweep leaves of the ledger.
LiveLedger == SelectSeq(Ledger, LAMBDA n : now < node[n].expire_time)

\* The live keys that the step removes from the index.
LiveRemoved == LiveKeys \ DOMAIN cache'

\* C22: a live record is destroyed only by LRU eviction or by clear.  In
\* every step a record that is unexpired when the call is made leaves the
\* cache only (a) in a clear or (b) in a put of a new key into a cache whose
\* unexpired records alone still fill the capacity, and then it is the one
\* record before tail; a get and a put of a tracked key remove no unexpired
\* record.
C22_LiveDestroyedOnlyByEvictionOrClear ==
    [][/\ \A k \in LiveRemoved :
            \/ Called("clear")
            \/ /\ PutNew
               /\ size >= capacity
               /\ Cardinality(LiveKeys) >= capacity
               /\ LiveRemoved = {k}
               /\ node[LiveLedger[Len(LiveLedger)]].key = k
               /\ node[cache[k]].next = tail
       /\ (Called("get") \/ (PutOk /\ last'.key \in Tracked)) => LiveRemoved = {}
      ]_vars

\* A put of a new key has evicted a live record from a full cache of two
\* after time has passed; the other live record is kept.
C22_Witness ==
    /\ last.op = "put"
    /\ last.branch = "insert"
    /\ last.evicted # None
    /\ last.evicted \notin Tracked
    /\ capacity = 2
    /\ now > 1
    /\ Cardinality(LiveKeys) = 2

\* C23: the sweep is complete, and only a new key at capacity triggers it.
\* A put of a new key into a cache with size() >= capacity removes every
\* tracked record whose expires_at is at or before the clock, so that no
\* expired record is tracked after it; a put of a new key into a cache with
\* size() < capacity removes nothing: every record, expired or not, stays
\* tracked as it was.
C23_SweepComplete ==
    [][/\ (PutNew /\ size >= capacity) =>
            /\ ExpiredKeys \cap DOMAIN cache' = {}
            /\ last'.swept = ExpiredKeys
            /\ \A k \in DOMAIN cache' : now' < node'[cache'[k]].expire_time
       /\ (PutNew /\ size < capacity) =>
            /\ DOMAIN cache' = Tracked \cup {last'.key}
            /\ last'.swept = {}
            /\ last'.evicted = None
            /\ \A k \in Tracked :
                  /\ cache'[k] = cache[k]
                  /\ node'[cache'[k]].value = ValueOf(k)
                  /\ node'[cache'[k]].expire_time = ExpiresAt(k)
      ]_vars

\* A put of a new key into a full cache has swept two expired records at
\* once, more than the one slot it needed.
C23_Witness ==
    /\ last.op = "put"
    /\ last.branch = "insert"
    /\ Cardinality(last.swept) >= 2
    /\ Tracked = {last.key}
    /\ capacity >= 2

\* C24: an updating put never sweeps or evicts.  A put of a tracked key
\* removes no record, also when the cache is full and other tracked records
\* are expired: the tracked keys are the same before and after, and every
\* other record keeps its node, value and expires_at.
C24_UpdateNeverSweeps ==
    [][(PutOk /\ last'.key \in Tracked) =>
         /\ DOMAIN cache' = Tracked
         /\ last'.swept = {}
         /\ last'.evicted = None
         /\ \A k \in Tracked \ {last'.key} :
               /\ cache'[k] = cache[k]
               /\ node'[cache'[k]].value = ValueOf(k)
               /\ node'[cache'[k]].expire_time = ExpiresAt(k)
      ]_vars

\* A put has updated a key of a full cache of two whose other record is
\* expired and still tracked.
C24_Witness ==
    /\ last.op = "put"
    /\ last.branch = "update"
    /\ capacity = 2
    /\ size = capacity
    /\ ExpiredKeys = Tracked \ {last.key}

\* C25: lazy expiration on get does not sweep.  A get of a tracked key
\* whose expires_at is at or before the clock removes the record of that
\* key and nothing else: every other record, expired ones included, stays
\* tracked on its node with its value and expires_at, the ledger is the
\* old one without the key's node, and size() is one less.
C25_LazyExpirationRemovesOne ==
    [][(Called("get") /\ last'.key \in Tracked /\ ExpiresAt(last'.key) <= now) =>
         LET k == last'.key IN
         /\ last'.result = None
         /\ DOMAIN cache' = Tracked \ {k}
         /\ Cardinality(DOMAIN cache') = size - 1
         /\ \A x \in Tracked \ {k} :
               /\ cache'[x] = cache[x]
               /\ node'[cache'[x]].value = ValueOf(x)
               /\ node'[cache'[x]].expire_time = ExpiresAt(x)
         /\ Ledger' = SelectSeq(Ledger, LAMBDA n : n # cache[k])
      ]_vars

\* A get has dropped its expired key, and the other expired record is
\* still tracked.
C25_Witness ==
    /\ last.op = "get"
    /\ last.branch = "expired"
    /\ last.key \notin Tracked
    /\ ExpiredKeys # {}
    /\ Len(Ledger) = Cardinality(ExpiredKeys)

\* C26: every hit refreshes recency.  A get that returns a value makes the
\* key's node the first after head, keeps the other nodes in the order
\* they had, and changes neither the index nor any record's value or
\* expires_at.
C26_HitRefreshesRecency ==
    [][(Called("get") /\ last'.result # None) =>
         LET k == last'.key IN
         /\ k \in Tracked
         /\ node'[head].next = cache[k]
         /\ Ledger' = <<cache[k]>> \o SelectSeq(Ledger, LAMBDA n : n # cache[k])
         /\ cache' = cache
         /\ \A x \in Tracked :
               /\ node'[cache'[x]].value = ValueOf(x)
               /\ node'[cache'[x]].expire_time = ExpiresAt(x)
               /\ node'[cache'[x]].key = x
      ]_vars

\* A hit in a cache of two records, one of them expired and untouched
\* behind the key that was read.
C26_Witness ==
    /\ last.op = "get"
    /\ last.branch = "hit"
    /\ Len(Ledger) = 2
    /\ Ledger[1] = cache[last.key]
    /\ node[Ledger[2]].expire_time <= now

\* What the caller of the last call observes: the value returned and the
\* exception raised.
Observed(c) == <<c.result, c.raised, c.message>>

\* C27: a miss is a pure read.  A get of a key that is not in the index
\* returns None, raises nothing, and leaves the index, every node (links,
\* value, expires_at) and the capacity as they were; a get of an expired
\* key hands the caller the same result, so the caller cannot tell a key
\* never inserted from an expired one.
C27_MissIsPureRead ==
    [][/\ (Called("get") /\ last'.key \notin Tracked) =>
            /\ Observed(last') = <<None, None, None>>
            /\ UNCHANGED <<cache, node, capacity, recency>>
            /\ Ledger' = Ledger
       /\ (Called("get") /\ last'.key \in Tracked /\ ExpiresAt(last'.key) <= now) =>
            Observed(last') = <<None, None, None>>
      ]_vars

\* A get has missed a key in a cache that tracks an expired record and a
\* live one.
C27_Witness ==
    /\ last.op = "get"
    /\ last.branch = "miss"
    /\ last.key \notin Tracked
    /\ ExpiredKeys # {}
    /\ LiveKeys # {}

\* The keys of the ledger, read from head.next to tail.prev.
LedgerKeySeq == [i \in 1 .. Len(Ledger) |-> node[Ledger[i]].key]

\* The abstract recency sequence: the records of the ledger as pairs of a
\* key and its expiry, most recent first.
AbstractLedger ==
    [i \in 1 .. Len(Ledger) |->
        [key |-> node[Ledger[i]].key,
         expire_time |-> node[Ledger[i]].expire_time]]

AbstractHas(S, k) == \E i \in 1 .. Len(S) : S[i].key = k

AbstractDelete(S, k) == SelectSeq(S, LAMBDA r : r.key # k)

AbstractPrepend(S, r) == <<r>> \o AbstractDelete(S, r.key)

\* get(k) at time t: a hit prepends k's record, an expired get deletes it.
AbstractGet(S, k, t) ==
    IF ~AbstractHas(S, k) THEN S
    ELSE LET r == S[CHOOSE i \in 1 .. Len(S) : S[i].key = k]
         IN  IF t >= r.expire_time THEN AbstractDelete(S, k)
             ELSE AbstractPrepend(S, r)

\* put(k, v, ttl_ms) at time t with capacity cap: a rejected put changes
\* nothing; a put of a new key into a full sequence first deletes the
\* expired records and, if it is still full, the last one; a successful
\* put prepends k's record.
AbstractPut(S, k, ttl_ms, t, cap) ==
    LET r == [key |-> k, expire_time |-> t + ttl_ms]
        swept == SelectSeq(S, LAMBDA x : t < x.expire_time)
        room == IF Len(S) < cap THEN S
                ELSE IF Len(swept) < cap THEN swept
                ELSE SubSeq(swept, 1, Len(swept) - 1)
    IN  IF ttl_ms <= 0 THEN S
        ELSE IF AbstractHas(S, k) THEN AbstractPrepend(S, r)
        ELSE <<r>> \o room

\* The abstract sequence after call c made at time t.
AbstractStep(S, c, t, cap) ==
    CASE c.op = "get" -> AbstractGet(S, c.key, t)
      [] c.op = "put" -> AbstractPut(S, c.key, c.num, t, cap)
      [] c.op \in {"clear", "construct"} -> <<>>
      [] OTHER -> S

\* C32: the linked ledger refines an abstract recency sequence.  Every call
\* of a constructed cache takes the records read from head.next to
\* tail.prev to the sequence the abstract model computes from the sequence
\* before the call (prepend k on a successful put and on a hit, after
\* removing k's earlier occurrence; delete k on an expired get, on the
\* sweep and on the eviction of the last element; empty on clear), and in
\* every state the keys read from the ledger are the tracked keys in the
\* order of their last successful put or hit.
C32_LedgerRefinesRecencySequence ==
    /\ [](constructed => LedgerKeySeq = recency)
    /\ [][constructed' =>
             AbstractLedger' = AbstractStep(AbstractLedger, last', now, capacity')]_vars

\* A put into a full cache has swept an expired record, kept the other
\* record, and the new key is in front of it.
C32_Witness ==
    /\ constructed
    /\ last.op = "put"
    /\ last.swept # {}
    /\ last.evicted = None
    /\ Len(Ledger) = 2
    /\ LedgerKeySeq[1] = last.key
    /\ LedgerKeySeq = recency

\* C33: put changes only what it must.  A call put(k, v, ttl_ms) leaves
\* every record of another key that is still tracked after it with the
\* value and the expiry it had, tracks no other key anew, and leaves those
\* records in the ledger order they had among themselves.
C33_PutChangesOnlyItsKey ==
    [][Called("put") =>
          LET k == last'.key
              others == Tracked' \ {k}
              before == SelectSeq(LedgerKeySeq, LAMBDA x : x \in others)
          IN  /\ others \subseteq Tracked
              /\ \A j \in others :
                    /\ node'[cache'[j]].value = ValueOf(j)
                    /\ node'[cache'[j]].expire_time = ExpiresAt(j)
              /\ SelectSeq(LedgerKeySeq', LAMBDA x : x # k) = before]_vars

\* A put of a new key into a full cache has evicted one record and left two
\* others, which differ in value, behind the new one.
C33_Witness ==
    /\ constructed
    /\ last.op = "put"
    /\ last.branch = "insert"
    /\ last.evicted # None
    /\ Len(Ledger) = 3
    /\ LedgerKeySeq[1] = last.key
    /\ node[Ledger[2]].value # node[Ledger[3]].value

\* =================================================== order service
\* src/main.py.  A handler's database statements are the steps of a request:
\* between the SELECT that loads a row and the COMMIT that writes it another
\* worker's statements may run (the test suite drives the handlers from
\* several threads, and nothing in a handler locks a row).  A handler that
\* answers after one statement is one action.

\* ------------------------------------------------------------ inputs
\* The users table: ids 1 and 2 signed up as USER, id 3 as admin@example.com.
UserIds == {1, 2, 3}

users == [u \in UserIds |-> [id |-> u, role |-> IF u = 3 THEN "ADMIN" ELSE "USER"]]

Customers == {u \in UserIds : users[u].role = "USER"}

OrderStatus == {"PENDING", "PAID", "CANCELLED"}

ClientTokens == {"t1", "t2"}

ItemLists ==
    {<<[sku |-> "ITEM-001", qty |-> 1]>>, <<[sku |-> "ITEM-002", qty |-> 5]>>}

\* Path parameter order_id: the ids the table can hold and one it cannot.
OrderIds == 1 .. 3

\* list_orders query parameters.
StatusFilters == {None, "pending", "bogus"}

SkuFilters == {None, "ITEM-001"}

Pages == {1, 2}

Limits == {1, 10}

\* --------------------------------------------------- pure functions
\* json.dumps of the item list (the text stored in Order.items), and
\* json.loads of that text.
json_dumps(items) == [i \in 1 .. Len(items) |-> <<"sku", items[i].sku, "qty", items[i].qty>>]

json_loads(text) == [i \in 1 .. Len(text) |-> [sku |-> text[i][2], qty |-> text[i][4]]]

\* sum(item.qty * 10.0 for item in order_data.items)
RECURSIVE total_amount(_)
total_amount(items) ==
    IF items = <<>> THEN 0 ELSE Head(items).qty * 10 + total_amount(Tail(items))

\* db.query(Order).filter(Order.client_token == token).first()
first_by_token(T, token) ==
    LET S == SelectSeq(T, LAMBDA o : o.client_token = token)
    IN  IF S = <<>> THEN NoOrder ELSE S[1]

\* db.query(Order).filter(Order.id == order_id).first()
first_by_id(T, order_id) ==
    LET S == SelectSeq(T, LAMBDA o : o.id = order_id)
    IN  IF S = <<>> THEN NoOrder ELSE S[1]

\* The unique index on orders.client_token refuses the INSERT.
unique_violation_never(T, token) == FALSE

unique_violation(T, token) == \E i \in 1 .. Len(T) : T[i].client_token = token

\* Order(user_id, items, client_token, total_amount, status) as inserted:
\* the next id, version 1 and the current time by the column defaults.
new_order(T, user_id, items, token, t) ==
    [id |-> Len(T) + 1, user_id |-> user_id, items |-> json_dumps(items),
     status |-> "PENDING", client_token |-> token,
     total_amount |-> total_amount(items), version |-> 1, updated_at |-> t]

\* The order data of a response body.  A field the body does not carry
\* keeps the value it has in NoView.
NoView ==
    [id |-> 0, user_id |-> 0, status |-> None, items |-> <<>>,
     total_amount |-> 0, version |-> 0, updated_at |-> 0]

\* create_order: id, status, items, total_amount
created_view(o) ==
    [NoView EXCEPT !.id = o.id, !.status = o.status,
                   !.items = json_loads(o.items),
                   !.total_amount = o.total_amount]

\* list_orders: id, status, items, total_amount, updated_at
listed_view(o) == [created_view(o) EXCEPT !.updated_at = o.updated_at]

\* get_order: order_data
order_data(o) ==
    [listed_view(o) EXCEPT !.user_id = o.user_id, !.version = o.version]

\* update_order_status: id, status, version, updated_at
updated_view(o) ==
    [NoView EXCEPT !.id = o.id, !.status = o.status, !.version = o.version,
                   !.updated_at = o.updated_at]

\* initiate_payment: order_id, amount_cents
payment_view(o) ==
    [NoView EXCEPT !.id = o.id, !.total_amount = o.total_amount * 100]

\* A response of handler op to user u (by worker w where the handler has
\* more than one step).
Response(op, w, u, code, detail, views) ==
    [NoResponse EXCEPT !.op = op, !.worker = w, !.user = u,
                       !.status_code = code, !.detail = detail,
                       !.orders = views, !.total = Len(views)]

\* A step of a handler that sends nothing yet.
Pending(op, w, u) == [NoResponse EXCEPT !.op = op, !.worker = w, !.user = u]

\* The RBAC test of list_orders, get_order and initiate_payment: a USER and
\* somebody else's order.
not_own(current_user, user_id) ==
    current_user.role = "USER" /\ user_id # current_user.id

\* cache_key(prefix, key)
cache_key(prefix, key) == <<prefix, key>>

\* get_cache(key): redis GET, nothing once the entry's time to live is over.
get_cache(R, key, t) ==
    IF key \in DOMAIN R /\ t < R[key].expires_at THEN R[key].value ELSE None

\* set_cache(key, value, ttl): redis SETEX
set_cache(R, key, value, ttl, t) ==
    [k \in DOMAIN R \cup {key} |->
        IF k = key THEN [value |-> value, expires_at |-> t + ttl] ELSE R[k]]

\* invalidate_cache(pattern): redis KEYS pattern, then DELETE of those keys.
invalidate_cache(R, key) == [k \in DOMAIN R \ {key} |-> R[k]]

\* json.dumps(order_data, default=str) as stored in redis, and json.loads.
json_dumps_order(d) ==
    <<d.id, d.user_id, d.status, json_dumps(d.items), d.total_amount,
      d.version, d.updated_at>>

json_loads_order(text) ==
    [id |-> text[1], user_id |-> text[2], status |-> text[3],
     items |-> json_loads(text[4]), total_amount |-> text[5],
     version |-> text[6], updated_at |-> text[7]]

\* The first worker with no request in hand takes the next request.
free_worker(w) ==
    /\ requests[w] = Idle
    /\ \A x \in Workers : requests[x] = Idle => w = "w1" \/ x # "w1"

\* ------------------------------------------------ create_order
\* POST /orders, the handler proper, up to its first return or to the
\* INSERT: the SELECT by client_token and the idempotent answer.
create_order_select(w, u, token, items) ==
    /\ free_worker(w)
    /\ LET existing_order == first_by_token(orders, token)
       IN  IF existing_order # NoOrder
           THEN /\ response' =
                      [Response("create_order", w, u, 200,
                                "Order already exists (idempotent response)",
                                <<created_view(existing_order)>>)
                          EXCEPT !.client_token = token, !.items = items]
                /\ UNCHANGED requests
           ELSE /\ requests' = [requests EXCEPT ![w] =
                                   [Idle EXCEPT !.op = "create_order",
                                                !.pc = "commit", !.user = u,
                                                !.client_token = token,
                                                !.items = items]]
                /\ response' = Pending("create_order", w, u)
    /\ UNCHANGED <<orders, payment_retries, redis, clock, tasks, patched>>
    /\ UNCHANGED cacheVars

\* The handler proper, as the wrapper of rate_limit calls it for a request
\* it lets through.
CreateOrderBegin(w, u, token, items) ==
    /\ create_order_select(w, u, token, items)
    /\ UNCHANGED <<rate_limit_storage, admitted>>

\* db.add(order); db.commit(); db.refresh(order), or the IntegrityError.
CreateOrderCommit(w) ==
    LET r == requests[w]
        order == new_order(orders, r.user, r.items, r.client_token, clock)
    IN  /\ r.op = "create_order"
        /\ r.pc = "commit"
        /\ IF unique_violation(orders, r.client_token)
           THEN /\ response' =
                      [Response("create_order", w, r.user, 400,
                                "Duplicate client token", <<>>)
                          EXCEPT !.client_token = r.client_token, !.items = r.items]
                /\ UNCHANGED orders
           ELSE /\ orders' = Append(orders, order)
                /\ response' =
                      [Response("create_order", w, r.user, 200, None,
                                <<created_view(order)>>)
                          EXCEPT !.client_token = r.client_token, !.items = r.items]
        /\ requests' = [requests EXCEPT ![w] = Idle]
        /\ UNCHANGED <<payment_retries, redis, rate_limit_storage, clock, tasks, patched, admitted>>
        /\ UNCHANGED cacheVars

\* ------------------------------------------------ list_orders
\* status.upper()
upper(s) == IF s = "pending" THEN "PENDING" ELSE s

\* Order.items.contains(q)
contains(text, q) == \E i \in 1 .. Len(text) : text[i][2] = q

\* query.offset(offset).limit(limit).all()
offset_limit(S, offset, limit) ==
    SubSeq(S, offset + 1, IF offset + limit < Len(S) THEN offset + limit ELSE Len(S))

\* GET /orders
ListOrders(u, status, q, page, limit) ==
    LET current_user == users[u]
        own == IF current_user.role = "USER"
               THEN SelectSeq(orders, LAMBDA o : ~not_own(current_user, o.user_id))
               ELSE orders
        by_status == IF status # None
                     THEN SelectSeq(own, LAMBDA o : o.status = upper(status))
                     ELSE own
        by_sku == IF q # None
                  THEN SelectSeq(by_status, LAMBDA o : contains(o.items, q))
                  ELSE by_status
        page_rows == offset_limit(by_sku, (page - 1) * limit, limit)
    IN  /\ response' =
               IF status # None /\ upper(status) \notin OrderStatus
               THEN Response("list_orders", None, u, 400, "Invalid status", <<>>)
               ELSE [Response("list_orders", None, u, 200, None,
                              [i \in 1 .. Len(page_rows) |-> listed_view(page_rows[i])])
                        EXCEPT !.total = Len(by_sku)]
        /\ UNCHANGED <<orders, payment_retries, redis, rate_limit_storage, clock,
                       requests, tasks, patched, admitted>>
        /\ UNCHANGED cacheVars

\* ------------------------------------------------ get_order
\* GET /orders/{order_id}
GetOrder(u, order_id) ==
    LET current_user == users[u]
        cache_k == cache_key("order", order_id)
        cached == get_cache(redis, cache_k, clock)
        order == first_by_id(orders, order_id)
        NotFound == Response("get_order", None, u, 404, "Order not found", <<>>)
    IN  /\ IF cached # None
           THEN /\ response' =
                      IF not_own(current_user, json_loads_order(cached).user_id)
                      THEN NotFound
                      ELSE Response("get_order", None, u, 200, "cached",
                                    <<json_loads_order(cached)>>)
                /\ UNCHANGED redis
           ELSE IF order = NoOrder \/ not_own(current_user, order.user_id)
                THEN /\ response' = NotFound
                     /\ UNCHANGED redis
                ELSE /\ redis' = set_cache(redis, cache_k,
                                           json_dumps_order(order_data(order)),
                                           30, clock)
                     /\ response' = Response("get_order", None, u, 200, None,
                                             <<order_data(order)>>)
        /\ UNCHANGED <<orders, payment_retries, rate_limit_storage, clock,
                       requests, tasks, patched, admitted>>
        /\ UNCHANGED cacheVars

\* ------------------------------------------------ initiate_payment
\* POST /payments/initiate
InitiatePayment(u, order_id) ==
    LET current_user == users[u]
        order == first_by_id(orders, order_id)
    IN  /\ response' =
               IF order = NoOrder \/ not_own(current_user, order.user_id)
               THEN Response("initiate_payment", None, u, 404, "Order not found", <<>>)
               ELSE Response("initiate_payment", None, u, 200, None,
                             <<payment_view(order)>>)
        /\ UNCHANGED <<orders, payment_retries, redis, rate_limit_storage, clock,
                       requests, tasks, patched, admitted>>
        /\ UNCHANGED cacheVars

\* Time passes: the clock moves on to a later one of the given instants.
SvcTick(instants) ==
    /\ \E t \in instants : t > clock /\ clock' = t
    /\ response' = NoResponse
    /\ UNCHANGED <<orders, payment_retries, redis, rate_limit_storage, requests,
                   tasks, patched, admitted>>
    /\ UNCHANGED cacheVars

\* SpecCreate: customers place orders side by side.
NextCreate ==
    \/ \E w \in Workers, u \in Customers, token \in ClientTokens, items \in ItemLists :
          CreateOrderBegin(w, u, token, items)
    \/ \E w \in Workers : CreateOrderCommit(w)

SpecCreate == Init /\ [][NextCreate]_vars

\* SpecOrders: customers place orders one after the other, and everybody
\* reads.
NextOrders ==
    \/ \E u \in Customers, token \in ClientTokens, items \in ItemLists :
          CreateOrderBegin("w1", u, token, items)
    \/ CreateOrderCommit("w1")
    \/ \E u \in UserIds, status \in StatusFilters, q \in SkuFilters,
          page \in Pages, limit \in Limits :
          ListOrders(u, status, q, page, limit)
    \/ \E u \in UserIds, order_id \in OrderIds : GetOrder(u, order_id)
    \/ \E u \in UserIds, order_id \in OrderIds : InitiatePayment(u, order_id)

SpecOrders == Init /\ [][NextOrders]_vars

\* ------------------------------------------------ update_order_status
\* Stored versions the model follows an order through.
MaxVersion == 3

\* UpdateOrderStatus.version: absent, or an integer.
ExpectedVersions == 1 .. MaxVersion

\* require_admin lets the request through.
require_admin_anyone(current_user) == TRUE

require_admin(current_user) == current_user.role = "ADMIN"

\* The optimistic locking check of the handler.
version_conflict(has_version, version, order) ==
    has_version /\ order.version # version

\* The UPDATE that db.commit() flushes for the loaded object: the columns
\* whose value differs from the loaded one, written to the row as it is now.
flush_update(row, loaded, status, updated_at) ==
    [row EXCEPT !.status = IF status # loaded.status THEN status ELSE @,
                !.version = loaded.version + 1,
                !.updated_at = updated_at]

\* PATCH /orders/{order_id}/status up to its first raise or to the commit:
\* require_admin, the SELECT, the version check, and the assignments to the
\* loaded object.
UpdateStatusBegin(w, u, order_id, status, has_version, version) ==
    LET current_user == users[u]
        order == first_by_id(orders, order_id)
        Raise(code, detail) ==
            /\ response' = Response("update_order_status", w, u, code, detail, <<>>)
            /\ UNCHANGED requests
    IN  /\ free_worker(w)
        /\ IF ~require_admin(current_user)
           THEN Raise(403, "Admin access required")
           ELSE IF order = NoOrder
           THEN Raise(404, "Order not found")
           ELSE IF version_conflict(has_version, version, order)
           THEN Raise(409, "Version conflict")
           ELSE /\ order.version < MaxVersion
                /\ requests' = [requests EXCEPT ![w] =
                                   [Idle EXCEPT !.op = "update_order_status",
                                                !.pc = "commit", !.user = u,
                                                !.order_id = order_id,
                                                !.status = status,
                                                !.has_version = has_version,
                                                !.version = version,
                                                !.order = order,
                                                !.updated_at = clock]]
                /\ response' = Pending("update_order_status", w, u)
        /\ UNCHANGED <<orders, payment_retries, redis, rate_limit_storage, clock,
                       tasks, patched, admitted>>
        /\ UNCHANGED cacheVars

\* db.commit(); db.refresh(order); invalidate_cache; or the DBAPIError.
UpdateStatusCommit(w, db_ok) ==
    LET r == requests[w]
        row == flush_update(orders[r.order_id], r.order, r.status, r.updated_at)
    IN  /\ r.op = "update_order_status"
        /\ r.pc = "commit"
        /\ IF db_ok
           THEN /\ orders' = [orders EXCEPT ![r.order_id] = row]
                /\ redis' = invalidate_cache(redis, cache_key("order", r.order_id))
                /\ response' = Response("update_order_status", w, r.user, 200,
                                        None, <<updated_view(row)>>)
                /\ patched' = IF r.has_version
                              THEN patched \cup {<<r.order_id, r.version>>}
                              ELSE patched
           ELSE /\ response' = Response("update_order_status", w, r.user, 500,
                                        "Failed to update order", <<>>)
                /\ UNCHANGED <<orders, redis, patched>>
        /\ requests' = [requests EXCEPT ![w] = Idle]
        /\ UNCHANGED <<payment_retries, rate_limit_storage, clock, tasks, admitted>>
        /\ UNCHANGED cacheVars

\* SpecStatus: one customer's order, and status updates handled side by
\* side.
NextStatus ==
    \/ \E w \in Workers : CreateOrderBegin(w, 1, "t1", <<[sku |-> "ITEM-001", qty |-> 1]>>)
    \/ \E w \in Workers : CreateOrderCommit(w)
    \/ \E w \in Workers, u \in {2, 3}, order_id \in 1 .. 2,
          status \in {"PAID", "CANCELLED"}, has_version \in BOOLEAN,
          version \in ExpectedVersions :
          UpdateStatusBegin(w, u, order_id, status, has_version, version)
    \/ \E w \in Workers, db_ok \in BOOLEAN : UpdateStatusCommit(w, db_ok)
    \/ SvcTick({1})

SpecStatus == Init /\ [][NextStatus]_vars

\* ------------------------------------------------ rate_limit
\* @rate_limit(max_requests=10, window_seconds=60) on create_order
max_requests == 10

window_seconds == 60

ClientIps == {"ip1"}

\* The instants (seconds) at which requests arrive.
ArrivalTimes == {1, 59, 60, 61, 120}

\* current_time - req_time < window_seconds
in_window(current_time, req_time, window) == current_time - req_time < window

\* len(rate_limit_storage[key]) >= max_requests
over_limit_exceeded(n, max) == n > max

over_limit(n, max) == n >= max

\* The wrapper up to its raise or to the call of the handler: the entry of
\* the key is created if missing, cleaned of old requests, and either the
\* request is rejected or its time is appended.
rate_limit(storage, key, current_time, max, window) ==
    LET listed == IF key \in DOMAIN storage THEN storage[key] ELSE <<>>
        kept == SelectSeq(listed, LAMBDA req_time : in_window(current_time, req_time, window))
        rejected == over_limit(Len(kept), max)
    IN  [rejected |-> rejected,
         storage |-> [k \in DOMAIN storage \cup {key} |->
                         IF k # key THEN storage[k]
                         ELSE IF rejected THEN kept
                         ELSE Append(kept, current_time)]]

\* POST /orders as served: the wrapper, and in the same step the handler's
\* SELECT (the wrapper awaits the handler without giving up control).
PostOrders(w, client_ip, u, token, items) ==
    LET key == <<client_ip, "create_order">>
        rl == rate_limit(rate_limit_storage, key, clock, max_requests, window_seconds)
    IN  /\ rate_limit_storage' = rl.storage
        /\ IF rl.rejected
           THEN /\ free_worker(w)
                /\ response' =
                      [Response("create_order", w, u, 429, "Rate limit exceeded", <<>>)
                          EXCEPT !.client_token = token, !.items = items]
                /\ UNCHANGED <<orders, payment_retries, redis, clock, requests,
                               tasks, patched, admitted>>
                /\ UNCHANGED cacheVars
           ELSE /\ create_order_select(w, u, token, items)
                /\ admitted' = [k \in DOMAIN admitted \cup {key} |->
                                   Append(IF k \in DOMAIN admitted THEN admitted[k] ELSE <<>>,
                                          clock)]

\* SpecRateLimit: one customer posts orders from one address, one request
\* after the other, while time passes.
NextRateLimit ==
    \/ \E client_ip \in ClientIps :
          PostOrders("w1", client_ip, 1, "t1", <<[sku |-> "ITEM-001", qty |-> 1]>>)
    \/ CreateOrderCommit("w1")
    \/ SvcTick(ArrivalTimes)

SpecRateLimit == Init /\ [][NextRateLimit]_vars

\* ------------------------------------------------ payment webhook
\* WEBHOOK_SECRET of main.py, and the secret payment_simulator.py signs with.
WEBHOOK_SECRET == "webhook-secret"

Secrets == {WEBHOOK_SECRET, "webhook-secret-change-in-production"}

\* Each payment is notified once.
PaymentIds == {"pay_1"}

WebhookStatuses == {"SUCCESS", "FAILED"}

\* The request body: json.dumps of a payload, or a JSON text without the
\* fields of WebhookPayload.
webhook_body(payment_id, order_id, status) ==
    <<"payment_id", payment_id, "order_id", order_id, "status", status>>

WebhookBodies ==
    {webhook_body(p, o, st) : p \in PaymentIds, o \in 1 .. 2, st \in WebhookStatuses}
        \cup {<<"payment_id", p>> : p \in PaymentIds}

\* "sha256=" + hmac.new(key, body, hashlib.sha256).hexdigest()
hmac_sha256(key, body) == <<"sha256", key, body>>

\* The X-Signature header: a signature of some body under some secret, or
\* "sha256=invalid".
XSignatures ==
    {hmac_sha256(k, b) : k \in Secrets, b \in WebhookBodies}
        \cup {<<"sha256", "invalid", <<>>>>}

\* hmac.compare_digest(f"sha256={expected_signature}", x_signature)
valid_signature_any(x_signature, body) == TRUE

valid_signature(x_signature, body) == x_signature = hmac_sha256(WEBHOOK_SECRET, body)

\* WebhookPayload(**json.loads(body)) raises.
invalid_payload(body) == Len(body) # 6

WebhookPayload(body) ==
    [payment_id |-> body[2], order_id |-> body[4], status |-> body[6]]

\* A background task: the arguments of process_webhook_with_retry and where
\* it stands: about to run an attempt, asleep before the next one for delay
\* seconds of which slept have passed, done (an attempt completed), or
\* failed (it gave up).  attempts counts the attempts that have run.
Task(payment_id, order_id, status) ==
    [payment_id |-> payment_id, order_id |-> order_id, status |-> status,
     retry_count |-> 0, pc |-> "run", delay |-> 0, slept |-> 0,
     attempts |-> 0]

\* POST /payments/webhook
PaymentWebhook(x_signature, body) ==
    LET Answer(code, detail) ==
            [Response("payment_webhook", None, 0, code, detail, <<>>)
                EXCEPT !.scheduled = (code = 200)]
    IN  /\ IF ~valid_signature(x_signature, body)
           THEN /\ response' = Answer(401, "Invalid signature")
                /\ UNCHANGED tasks
           ELSE IF invalid_payload(body)
           THEN /\ response' = Answer(400, "Invalid payload")
                /\ UNCHANGED tasks
           ELSE LET webhook_data == WebhookPayload(body)
                IN  /\ \A t \in tasks : t.payment_id # webhook_data.payment_id
                    /\ tasks' = tasks \cup {Task(webhook_data.payment_id,
                                                 webhook_data.order_id,
                                                 webhook_data.status)}
                    /\ response' = Answer(200, "received")
        /\ UNCHANGED <<orders, payment_retries, redis, rate_limit_storage, clock,
                       requests, patched, admitted>>
        /\ UNCHANGED cacheVars

\* order.status = PAID; order.updated_at = utcnow(); order.version += 1
mark_paid_skipped(order, t) == order

mark_paid(order, t) ==
    [order EXCEPT !.status = "PAID", !.updated_at = t, !.version = @ + 1]

\* The PaymentRetry rows of a payment and order.
retry_rows(payment_id, order_id) ==
    {r \in payment_retries : r.payment_id = payment_id /\ r.order_id = order_id}

\* delay = 2 ** retry_count
backoff_linear(retry_count) == retry_count + 1

backoff(retry_count) == 2 ^ retry_count

\* The ways an attempt can go: it completes; a statement raises before
\* anything is committed; the clean-up raises after the order was committed;
\* or a statement raises and the commit of the retry record raises too.
Outcomes == {"completes", "raises", "raises_after_commit", "raises_twice"}

\* One attempt of process_webhook_with_retry, up to its return or to its
\* asyncio.sleep.
ProcessWebhook(t, outcome) ==
    LET order == first_by_id(orders, t.order_id)
        marks == t.status = "SUCCESS" /\ order # NoOrder
        committed == marks /\ outcome \in {"completes", "raises_after_commit"}
        retry_record ==
            [payment_id |-> t.payment_id, order_id |-> t.order_id,
             status |-> t.status, retry_count |-> t.retry_count + 1]
        ran == [t EXCEPT !.attempts = @ + 1]
        after ==
            IF outcome = "completes" THEN [ran EXCEPT !.pc = "done"]
            ELSE IF outcome = "raises_twice" \/ ~(t.retry_count < 3)
            THEN [ran EXCEPT !.pc = "failed"]
            ELSE [ran EXCEPT !.retry_count = @ + 1, !.pc = "sleep",
                             !.delay = backoff(t.retry_count), !.slept = 0]
    IN  /\ t \in tasks
        /\ t.pc = "run"
        /\ outcome = "raises_after_commit" => marks
        /\ outcome = "raises_twice" => t.retry_count < 3
        /\ IF committed
           THEN /\ orders' = [orders EXCEPT ![t.order_id] = mark_paid(order, clock)]
                /\ redis' = invalidate_cache(redis, cache_key("order", t.order_id))
           ELSE UNCHANGED <<orders, redis>>
        /\ payment_retries' =
              IF outcome = "completes"
              THEN payment_retries \ retry_rows(t.payment_id, t.order_id)
              ELSE IF after.pc = "sleep"
              THEN (payment_retries \ retry_rows(t.payment_id, t.order_id))
                       \cup {retry_record}
              ELSE payment_retries
        /\ tasks' = (tasks \ {t}) \cup {after}
        /\ response' =
              [Response("process_webhook_with_retry", None, 0, 0, outcome,
                        IF committed THEN <<updated_view(mark_paid(order, clock))>>
                        ELSE <<>>)
                  EXCEPT !.client_token = t.payment_id]
        /\ UNCHANGED <<rate_limit_storage, clock, requests, patched, admitted>>
        /\ UNCHANGED cacheVars

\* A second of await asyncio.sleep(delay) passes.
TaskSleep(t) ==
    /\ t \in tasks
    /\ t.pc = "sleep"
    /\ t.slept < t.delay
    /\ tasks' = (tasks \ {t}) \cup {[t EXCEPT !.slept = @ + 1]}
    /\ response' = NoResponse
    /\ UNCHANGED <<orders, payment_retries, redis, rate_limit_storage, clock,
                   requests, patched, admitted>>
    /\ UNCHANGED cacheVars

\* await asyncio.sleep(delay) returns, and the function calls itself with
\* retry_count + 1.
TaskWake(t) ==
    /\ t \in tasks
    /\ t.pc = "sleep"
    /\ t.slept >= t.delay
    /\ tasks' = (tasks \ {t})
                    \cup {[t EXCEPT !.pc = "run", !.delay = 0, !.slept = 0]}
    /\ response' = NoResponse
    /\ UNCHANGED <<orders, payment_retries, redis, rate_limit_storage, clock,
                   requests, patched, admitted>>
    /\ UNCHANGED cacheVars

\* SpecWebhook: one customer's order, the payment provider's notifications
\* and their processing.
NextWebhook ==
    \/ CreateOrderBegin("w1", 1, "t1", <<[sku |-> "ITEM-001", qty |-> 1]>>)
    \/ CreateOrderCommit("w1")
    \/ \E x_signature \in XSignatures, body \in WebhookBodies :
          PaymentWebhook(x_signature, body)
    \/ \E t \in tasks, outcome \in Outcomes : ProcessWebhook(t, outcome)
    \/ \E t \in tasks : TaskSleep(t)
    \/ \E t \in tasks : TaskWake(t)

SpecWebhook == Init /\ [][NextWebhook]_vars

\* The event loop runs every background task it was given: an attempt that
\* can run does run, time passes for a task asleep, and a sleep ends.
SpecWebhookFair ==
    /\ Init
    /\ [][NextWebhook]_vars
    /\ WF_vars(\E t \in tasks, outcome \in Outcomes : ProcessWebhook(t, outcome))
    /\ WF_vars(\E t \in tasks : TaskSleep(t))
    /\ WF_vars(\E t \in tasks : TaskWake(t))

\* ------------------------------------------------ get_order, step by step
\* GET /orders/{order_id} up to its first return or to set_cache: the cache
\* lookup and the answer from the cache, or the SELECT and the RBAC test.
\* The request keeps the row it loaded.
GetOrderBegin(w, u, order_id) ==
    LET current_user == users[u]
        cache_k == cache_key("order", order_id)
        cached == get_cache(redis, cache_k, clock)
        order == first_by_id(orders, order_id)
        NotFound == Response("get_order", w, u, 404, "Order not found", <<>>)
    IN  /\ free_worker(w)
        /\ IF cached # None
           THEN /\ response' =
                      IF not_own(current_user, json_loads_order(cached).user_id)
                      THEN NotFound
                      ELSE Response("get_order", w, u, 200, "cached",
                                    <<json_loads_order(cached)>>)
                /\ UNCHANGED requests
           ELSE IF order = NoOrder \/ not_own(current_user, order.user_id)
                THEN /\ response' = NotFound
                     /\ UNCHANGED requests
                ELSE /\ requests' = [requests EXCEPT ![w] =
                                        [Idle EXCEPT !.op = "get_order",
                                                     !.pc = "set_cache",
                                                     !.user = u,
                                                     !.order_id = order_id,
                                                     !.order = order]]
                     /\ response' = Pending("get_order", w, u)
        /\ UNCHANGED <<orders, payment_retries, redis, rate_limit_storage, clock,
                       tasks, patched, admitted>>
        /\ UNCHANGED cacheVars

\* set_cache(cache_k, json.dumps(order_data, default=str), ttl=30) and the
\* return of order_data, built from the row the request loaded.
GetOrderSetCache(w) ==
    LET r == requests[w]
    IN  /\ r.op = "get_order"
        /\ r.pc = "set_cache"
        /\ redis' = set_cache(redis, cache_key("order", r.order_id),
                              json_dumps_order(order_data(r.order)), 30, clock)
        /\ response' = Response("get_order", w, r.user, 200, None,
                                <<order_data(r.order)>>)
        /\ requests' = [requests EXCEPT ![w] = Idle]
        /\ UNCHANGED <<orders, payment_retries, rate_limit_storage, clock, tasks,
                       patched, admitted>>
        /\ UNCHANGED cacheVars

\* SpecOrderCache: one customer's order, read by its owner and the admin
\* while the admin changes its status and the payment provider reports a
\* payment; the clock passes the 30 seconds of a cache entry.
NextOrderCache ==
    \/ CreateOrderBegin("w1", 1, "t1", <<[sku |-> "ITEM-001", qty |-> 1]>>)
    \/ CreateOrderCommit("w1")
    \/ \E w \in Workers, u \in {1, 3} : GetOrderBegin(w, u, 1)
    \/ \E w \in Workers : GetOrderSetCache(w)
    \/ \E w \in Workers : UpdateStatusBegin(w, 3, 1, "CANCELLED", FALSE, 1)
    \/ \E w \in Workers : UpdateStatusCommit(w, TRUE)
    \/ LET body == webhook_body("pay_1", 1, "SUCCESS")
       IN  PaymentWebhook(hmac_sha256(WEBHOOK_SECRET, body), body)
    \/ \E t \in tasks : ProcessWebhook(t, "completes")
    \/ SvcTick({29, 30})

SpecOrderCache == Init /\ [][NextOrderCache]_vars

\* ------------------------------------------------ claims on the orders
\* The response just sent answers a POST /orders.
CreateAnswered == response.op = "create_order" /\ response.status_code # 0

\* The idempotent answer of create_order.
Replayed ==
    /\ CreateAnswered
    /\ response.detail = "Order already exists (idempotent response)"

\* C11: idempotent order creation.  No two rows of orders hold the same
\* client_token; and a POST /orders that finds a row with its client_token
\* inserts nothing, changes no row, and answers 200 with that row's id and
\* the items stored in it, whatever items the request carries.
C11_IdempotentCreate ==
    /\ [](\A i, j \in 1 .. Len(orders) :
            orders[i].client_token = orders[j].client_token => i = j)
    /\ [][\A w \in Workers, u \in Customers, token \in ClientTokens, items \in ItemLists :
            (CreateOrderBegin(w, u, token, items)
                /\ \E i \in 1 .. Len(orders) : orders[i].client_token = token)
            => /\ orders' = orders
               /\ response'.status_code = 200
               /\ Len(response'.orders) = 1
               /\ \E i \in 1 .. Len(orders) :
                     /\ orders[i].client_token = token
                     /\ response'.orders[1].id = orders[i].id
                     /\ response'.orders[1].items = json_loads(orders[i].items)]_vars

\* A replay that carried other items than the stored ones, and a second row
\* in the table.
C11_Witness ==
    /\ Replayed
    /\ Len(orders) = 2
    /\ response.items # response.orders[1].items
    /\ first_by_token(orders, response.client_token).id = response.orders[1].id

\* C12: every POST /orders of several handled side by side with the same
\* client_token is answered 200, with the id of the one row holding that
\* token.
C12_ConcurrentCreatesAllSucceed ==
    CreateAnswered =>
        /\ response.status_code = 200
        /\ response.orders[1].id = first_by_token(orders, response.client_token).id

\* ------------------------------------------- claims on the status updates
\* The step sends the 200 of a status update that carried a version.
VersionedUpdateAnswered(w) ==
    /\ requests[w].op = "update_order_status"
    /\ requests[w].has_version
    /\ response'.op = "update_order_status"
    /\ response'.worker = w
    /\ response'.status_code = 200

\* C13: optimistic locking prevents lost updates.  Of the status updates of
\* one order that carry the same expected version at most one is answered
\* 200, however the requests' steps interleave.
C13_AtMostOneUpdatePerVersion ==
    [][\A w \in Workers :
        VersionedUpdateAnswered(w)
        => <<requests[w].order_id, requests[w].version>> \notin patched]_vars

\* C14: a stale version is rejected without effect.  Every committed change
\* of an order leaves its version strictly greater than it was; and a PATCH
\* by an admin that carries a version below the stored one is answered 409
\* and changes no row.
C14_StaleVersionRejected ==
    /\ [][\A i \in 1 .. Len(orders) :
            orders'[i] # orders[i] => orders'[i].version > orders[i].version]_vars
    /\ [][\A w \in Workers, order_id \in 1 .. Len(orders),
             status \in OrderStatus, version \in ExpectedVersions :
            (UpdateStatusBegin(w, 3, order_id, status, TRUE, version)
                /\ version < orders[order_id].version)
            => /\ response'.status_code = 409
               /\ UNCHANGED <<orders, requests>>]_vars

\* C17: only admins change an order's status.  A PATCH from a user whose
\* role is not ADMIN is answered 403, leaves every row as it is and leaves
\* nothing to commit.
C17_NonAdminForbidden ==
    [][(response'.op = "update_order_status"
            /\ users[response'.user].role # "ADMIN")
        => /\ response'.status_code = 403
           /\ response'.detail = "Admin access required"
           /\ UNCHANGED <<orders, requests, redis>>]_vars

\* A customer was refused while an order was there to be changed, after an
\* admin had changed it.
C17_Witness ==
    /\ response.op = "update_order_status"
    /\ response.status_code = 403
    /\ users[response.user].role = "USER"
    /\ Len(orders) = 1
    /\ orders[1].status = "PAID"
    /\ orders[1].version = 2

\* ------------------------------------------- claims on the rate limiter
\* The requests of key the limiter let through in the window seconds from
\* instant s on, and in the window seconds up to instant t.
AdmittedFrom(key, s, window) ==
    {i \in 1 .. Len(admitted[key]) :
        s <= admitted[key][i] /\ admitted[key][i] < s + window}

AdmittedBefore(key, t, window) ==
    IF key \notin DOMAIN admitted THEN {}
    ELSE {i \in 1 .. Len(admitted[key]) : t - admitted[key][i] < window}

C16_OwnOrdersOnly ==
    response.user \in Customers =>
        \A i \in 1 .. Len(response.orders) :
            first_by_id(orders, response.orders[i].id).user_id = response.user

\* ------------------------------------------- claims on the webhook
\* C18: a webhook whose X-Signature is not the HMAC-SHA256 of its body under
\* WEBHOOK_SECRET is answered 401 and has no effect: no background task is
\* scheduled, and no order and no retry record changes.
C18_InvalidSignatureRejected ==
    [][\A x_signature \in XSignatures, body \in WebhookBodies :
        (PaymentWebhook(x_signature, body)
            /\ x_signature # <<"sha256", "webhook-secret", body>>)
        => /\ response'.status_code = 401
           /\ ~response'.scheduled
           /\ UNCHANGED <<tasks, orders, payment_retries>>]_vars

\* A webhook was refused while a pending order was there to be paid.
C18_Witness ==
    /\ response.op = "payment_webhook"
    /\ response.status_code = 401
    /\ Len(orders) = 1
    /\ orders[1].status = "PENDING"
    /\ tasks = {}

\* The webhook of payment p reports SUCCESS for an order in the table and
\* its processing is under way; that order is PAID; the processing has
\* given up.
SuccessPending(p) ==
    \E t \in tasks :
        /\ t.payment_id = p
        /\ t.status = "SUCCESS"
        /\ t.pc \in {"run", "sleep"}
        /\ first_by_id(orders, t.order_id) # NoOrder

PaidBy(p) ==
    \E t \in tasks :
        t.payment_id = p /\ first_by_id(orders, t.order_id).status = "PAID"

GaveUp(p) == \E t \in tasks : t.payment_id = p /\ t.pc = "failed"

\* C19: a successful payment webhook marks the order PAID.  Once a SUCCESS
\* webhook for an order in the table is accepted, the order becomes PAID or
\* the processing gives up, every attempt having raised; an attempt that
\* completes without raising leaves the order PAID; and the processing of
\* a webhook whose status is not SUCCESS changes no order.
C19_SuccessMarksPaid ==
    /\ \A p \in PaymentIds : SuccessPending(p) ~> (PaidBy(p) \/ GaveUp(p))
    /\ [][\A t \in tasks :
            (ProcessWebhook(t, "completes")
                /\ t.status = "SUCCESS"
                /\ first_by_id(orders, t.order_id) # NoOrder)
            => first_by_id(orders', t.order_id).status = "PAID"]_vars
    /\ [][\A t \in tasks, outcome \in Outcomes :
            (ProcessWebhook(t, outcome) /\ t.status # "SUCCESS")
            => UNCHANGED orders]_vars

\* The second attempt completed after the first had raised before its
\* commit: the order is PAID at version 2 and the retry record is gone.
C19_Witness ==
    /\ \E t \in tasks :
          /\ t.status = "SUCCESS"
          /\ t.pc = "done"
          /\ t.retry_count = 1
          /\ t.order_id = 1
    /\ Len(orders) = 1
    /\ orders[1].status = "PAID"
    /\ orders[1].version = 2
    /\ payment_retries = {}

\* The seconds to wait before the first, second and third retry.
ExpectedWait == <<1, 2, 4>>

\* The processing of payment p is under way; it has ended.
Processing(p) == \E t \in tasks : t.payment_id = p /\ t.pc \in {"run", "sleep"}

Ended(p) == \E t \in tasks : t.payment_id = p /\ t.pc \in {"done", "failed"}

\* C30: the webhook retry is bounded.  The processing of one webhook makes
\* at most 4 attempts, the initial one and 3 retries; an attempt is followed
\* by a sleep and another attempt only if it raised and its retry_count was
\* below 3; the sleep before retry 1, 2 and 3 lasts 1, 2 and 4 seconds;
\* the processing always ends, and after an attempt that completed, or
\* raised with retry_count = 3, it makes no further attempt.
C30_RetryBounded ==
    /\ [](\A t \in tasks : t.attempts <= 4 /\ t.retry_count <= 3)
    /\ [][\A t \in tasks :
            (t.pc = "run" /\ t \notin tasks') =>
                \E u \in tasks' :
                    /\ u.payment_id = t.payment_id
                    /\ u.attempts = t.attempts + 1
                    /\ u.attempts = t.retry_count + 1
                    /\ (u.pc = "sleep") =>
                          /\ response'.detail # "completes"
                          /\ t.retry_count < 3
                          /\ u.retry_count = t.retry_count + 1
                    /\ (response'.detail = "completes") => u.pc = "done"
                    /\ (response'.detail # "completes" /\ t.retry_count = 3)
                          => u.pc = "failed"]_vars
    /\ [][\A t \in tasks :
            (t.pc = "sleep" /\ \E u \in tasks' : u.payment_id = t.payment_id
                                                  /\ u.pc = "run")
            => t.slept = ExpectedWait[t.retry_count]]_vars
    /\ [][\A t \in tasks : t.pc \in {"done", "failed"} => t \in tasks']_vars
    /\ \A p \in PaymentIds : Processing(p) ~> Ended(p)

\* All four attempts have raised, and the processing has given up after
\* the third retry.
C30_Witness ==
    \E t \in tasks :
        /\ t.pc = "failed"
        /\ t.attempts = 4
        /\ t.retry_count = 3

\* ------------------------------------------- claims on the order cache
\* C31: order-detail cache coherence.  A GET /orders/{id} that starts after
\* a status change has committed and invalidated the cache returns the
\* status and version that change wrote: a GET answered from the cache
\* carries the status and the version the row has at that moment.  (A GET
\* that misses the cache answers from the row it reads, so for it this
\* holds by the SELECT.)  The code does not keep it: a GET that loaded the
\* row before the commit writes its copy into the cache after the
\* invalidation.
C31_GetAfterInvalidationIsCurrent ==
    [][(/\ response'.op = "get_order"
        /\ response'.status_code = 200
        /\ response'.detail = "cached")
          => LET view == response'.orders[1]
                 row == first_by_id(orders, view.id)
             IN  /\ view.status = row.status
                 /\ view.version = row.version]_vars

\* ============================================ threads on one cache
\* src/LRU-ALGORITHM/cache-lru.py run by callers that share one cache
\* object.  The class takes no lock, so a thread can be scheduled out
\* between any two statements of a method.  A step of a thread is one
\* statement of get, put, _cleanup_expired or clear; a call of _remove_node
\* or _add_to_head is one step, which leaves out the interleavings inside
\* it.  A statement that raises (a key gone from the dict, a node without
\* links, a dict that changed under its iterator) ends the call where it
\* stands.
ThreadKeys == {"a", "b"}
ThreadCapacities == {1}
ThreadTTLs == {1}

\* The statement a thread is at, for the frame f it runs in.
Frame(op, key, value, ttl_ms, pc) ==
    [NoFrame EXCEPT !.op = op, !.key = key, !.value = value,
                    !.ttl_ms = ttl_ms, !.pc = pc]

\* The nodes that some reference still reaches: from the sentinels, the
\* dict and the threads' locals, along prev and next.
RECURSIVE reach(_, _)
reach(N, S) ==
    LET S2 == (S \cup {N[r].prev : r \in S} \cup {N[r].next : r \in S}) \ {None}
    IN  IF S2 = S THEN S ELSE reach(N, S2)

roots(C, T) ==
    ({head, tail} \cup {C[k] : k \in DOMAIN C}
        \cup {T[t].node : t \in Threads} \cup {T[t].new_node : t \in Threads}
        \cup {T[t].lru_node : t \in Threads}) \ {None}

\* Python frees a node when the last reference to it is gone.
gc(N, C, T) ==
    LET live == reach(N, roots(C, T))
    IN  [r \in Refs |-> IF r \in live THEN N[r] ELSE FreeNode]

\* The node objects Node(...) can return: those nothing refers to.
free_slots(N, C, T) == NodeIds \ reach(N, roots(C, T))

first_free(N, C, T) ==
    NodeSlots[CHOOSE i \in 1 .. Len(NodeSlots) :
                 /\ NodeSlots[i] \in free_slots(N, C, T)
                 /\ \A j \in 1 .. (i - 1) : NodeSlots[j] \notin free_slots(N, C, T)]

\* self.cache.items(): the keys the iterator of line 64 will yield.
RECURSIVE dict_items(_, _)
dict_items(C, i) ==
    IF i > Len(KeyOrder) THEN <<>>
    ELSE (IF KeyOrder[i] \in DOMAIN C THEN <<KeyOrder[i]>> ELSE <<>>)
         \o dict_items(C, i + 1)

\* The dict under an iterator.  next() raises RuntimeError when the dict
\* has another size than at the start of the iteration; when it has the
\* same size and other keys, next() raises or goes on with the keys of the
\* dict it has not yielded, whichever the state of the hash table gives.
changed_size(C, f) == Cardinality(DOMAIN C) # Len(f.scanned) + Len(f.items)

changed_keys(C, f) ==
    DOMAIN C # {f.scanned[i] : i \in 1 .. Len(f.scanned)}
                 \cup {f.items[i] : i \in 1 .. Len(f.items)}

not_yielded(C, f) ==
    SelectSeq(dict_items(C, 1),
              LAMBDA k : \A i \in 1 .. Len(f.scanned) : f.scanned[i] # k)

\* A thread takes a step: the dict, the heap and its frame after it.
ThreadStep(t, C, N, f, exc) ==
    LET T == [threads EXCEPT ![t] = f] IN
    /\ cache' = C
    /\ threads' = T
    /\ node' = gc(N, C, T)
    /\ raised' = raised \cup exc
    /\ UNCHANGED <<constructed, capacity, now, last, recency, ctorRaised, overlapped>>
    /\ UNCHANGED svcVars

Goto(t, pc) == ThreadStep(t, cache, node, [threads[t] EXCEPT !.pc = pc], {})

\* return: the frame is dropped.
Return(t, C, N) == ThreadStep(t, C, N, NoFrame, {})

\* An uncaught exception leaves the method at the statement that raised.
Raise(t, exc) == ThreadStep(t, cache, node, NoFrame, {exc})

\* t1 takes the call when both threads are free.
free_thread(t) ==
    /\ threads[t].pc = "idle"
    /\ t = "t1" \/ threads["t1"].pc # "idle"

\* Nothing keeps a thread from entering a method while another thread is
\* inside one.
other_running(t) == \E u \in Threads \ {t} : threads[u].pc # "idle"

\* A thread enters a method.  The runs followed are calls made one after
\* another, then two calls that overlap, and no call after those.
Begin(t, f) ==
    /\ constructed
    /\ free_thread(t)
    /\ ~overlapped
    /\ cache' = cache
    /\ node' = node
    /\ threads' = [threads EXCEPT ![t] = f]
    /\ overlapped' = other_running(t)
    /\ UNCHANGED <<constructed, capacity, now, last, recency, ctorRaised, raised>>
    /\ UNCHANGED svcVars

GetBegin(t, k) == Begin(t, Frame("get", k, None, 0, "l78"))

PutBegin(t, k, v, ttl_ms) == Begin(t, Frame("put", k, v, ttl_ms, "l96"))

ClearBegin(t) == Begin(t, Frame("clear", None, None, 0, "l126"))

SizeBegin(t) == Begin(t, Frame("size", None, None, 0, "l122"))

\* _remove_node(n) on a node whose prev is None raises AttributeError at
\* line 36, before it has written anything.
unlinked(N, n) == N[n].prev = None \/ N[n].next = None

\* get, lines 78-89.
GetStep(t) ==
    LET f == threads[t] IN
    /\ f.op = "get"
    /\ CASE f.pc = "l78" ->
              IF f.key \notin DOMAIN cache THEN Return(t, cache, node)
              ELSE Goto(t, "l81")
         [] f.pc = "l81" ->
              IF f.key \notin DOMAIN cache THEN Raise(t, "KeyError")
              ELSE ThreadStep(t, cache, node,
                              [f EXCEPT !.node = cache[f.key], !.pc = "l83"], {})
         [] f.pc = "l83" ->
              IF is_expired(node, f.node, now) THEN Goto(t, "l84")
              ELSE Goto(t, "l48")
         [] f.pc = "l84" ->
              IF unlinked(node, f.node) THEN Raise(t, "AttributeError")
              ELSE ThreadStep(t, cache, remove_node(node, f.node),
                              [f EXCEPT !.pc = "l85"], {})
         [] f.pc = "l85" ->
              IF f.key \notin DOMAIN cache THEN Raise(t, "KeyError")
              ELSE Return(t, DictDel(cache, f.key), node)
         [] OTHER -> FALSE

\* _move_to_head(node), lines 48-49, for get's hit and put's update.
MoveToHeadStep(t) ==
    LET f == threads[t] IN
    /\ f.op \in {"get", "put"}
    /\ CASE f.pc = "l48" ->
              IF unlinked(node, f.node) THEN Raise(t, "AttributeError")
              ELSE ThreadStep(t, cache, remove_node(node, f.node),
                              [f EXCEPT !.pc = "l49"], {})
         [] f.pc = "l49" -> Return(t, cache, add_to_head(node, f.node))
         [] OTHER -> FALSE

\* Where put goes after the sweep (line 113): to the eviction when the
\* cache is still full, else to the insertion.  (Variants: a put that
\* evicts without the second test, and one that sweeps again.)
after_sweep_evict(C, cap) == "l114"

after_sweep_again(C, cap) == IF at_capacity(C, cap) THEN "l63" ELSE "l117"

after_sweep(C, cap) == IF at_capacity(C, cap) THEN "l114" ELSE "l117"

\* put, lines 96-118, without the sweep.
PutStep(t) ==
    LET f == threads[t] IN
    /\ f.op = "put"
    /\ CASE f.pc = "l96" ->
              IF invalid_ttl(f.ttl_ms) THEN Raise(t, "ValueError")
              ELSE ThreadStep(t, cache, node,
                      [f EXCEPT !.expire_time = now + f.ttl_ms,
                                !.pc = IF is_tracked(cache, f.key) THEN "l103"
                                       ELSE "l108"], {})
         [] f.pc = "l103" ->
              IF f.key \notin DOMAIN cache THEN Raise(t, "KeyError")
              ELSE ThreadStep(t, cache, node,
                              [f EXCEPT !.node = cache[f.key], !.pc = "l104"], {})
         [] f.pc = "l104" ->
              ThreadStep(t, cache,
                         update_node(node, f.node, f.value, f.expire_time),
                         [f EXCEPT !.pc = "l48"], {})
         [] f.pc = "l108" ->
              /\ free_slots(node, cache, threads) # {}
              /\ LET n == first_free(node, cache, threads) IN
                 ThreadStep(t, cache,
                     [node EXCEPT ![n] = Node(f.key, f.value, f.expire_time)],
                     [f EXCEPT !.new_node = n,
                               !.pc = IF at_capacity(cache, capacity) THEN "l63"
                                      ELSE "l117"], {})
         [] f.pc = "l113" -> Goto(t, after_sweep(cache, capacity))
         [] f.pc = "l114" ->
              IF unlinked(node, lru_node(node)) THEN Raise(t, "AttributeError")
              ELSE ThreadStep(t, cache, remove_tail(node),
                              [f EXCEPT !.lru_node = lru_node(node),
                                        !.pc = "l115"], {})
         [] f.pc = "l115" ->
              IF node[f.lru_node].key \notin DOMAIN cache THEN Raise(t, "KeyError")
              ELSE ThreadStep(t, DictDel(cache, node[f.lru_node].key), node,
                              [f EXCEPT !.lru_node = None, !.pc = "l117"], {})
         [] f.pc = "l117" ->
              ThreadStep(t, DictSet(cache, f.key, f.new_node), node,
                         [f EXCEPT !.pc = "l118"], {})
         [] f.pc = "l118" -> Return(t, cache, add_to_head(node, f.new_node))
         [] OTHER -> FALSE

\* _cleanup_expired, lines 63-71, called from put at line 111.
CleanupStep(t) ==
    LET f == threads[t] IN
    /\ f.op = "put"
    /\ CASE f.pc = "l63" ->
              ThreadStep(t, cache, node,
                  [f EXCEPT !.expired_keys = <<>>,
                            !.items = dict_items(cache, 1),
                            !.scanned = <<>>,
                            !.pc = "l64"], {})
         [] f.pc = "l64" ->
              \/ /\ changed_keys(cache, f)
                 /\ Raise(t, "RuntimeError")
              \/ /\ ~changed_size(cache, f)
                 /\ IF f.items = <<>> THEN Goto(t, "l68")
                    ELSE LET key == Head(not_yielded(cache, f)) IN
                         ThreadStep(t, cache, node,
                             [f EXCEPT !.items = Tail(f.items),
                                       !.scanned = Append(f.scanned, key),
                                       !.expired_keys =
                                           IF is_expired(node, cache[key], now)
                                           THEN Append(f.expired_keys, key)
                                           ELSE f.expired_keys], {})
         [] f.pc = "l68" ->
              IF f.expired_keys = <<>> THEN Goto(t, "l113")
              ELSE IF Head(f.expired_keys) \notin DOMAIN cache
              THEN Raise(t, "KeyError")
              ELSE ThreadStep(t, cache, node,
                      [f EXCEPT !.node = cache[Head(f.expired_keys)],
                                !.pc = "l70"], {})
         [] f.pc = "l70" ->
              IF unlinked(node, f.node) THEN Raise(t, "AttributeError")
              ELSE ThreadStep(t, cache, remove_node(node, f.node),
                              [f EXCEPT !.pc = "l71"], {})
         [] f.pc = "l71" ->
              IF Head(f.expired_keys) \notin DOMAIN cache THEN Raise(t, "KeyError")
              ELSE ThreadStep(t, DictDel(cache, Head(f.expired_keys)), node,
                      [f EXCEPT !.node = None,
                                !.expired_keys = Tail(f.expired_keys),
                                !.pc = "l68"], {})
         [] OTHER -> FALSE

\* A clear that empties the dict and leaves the list as it is.
ClearStep_dict_only(t) ==
    /\ threads[t].op = "clear"
    /\ threads[t].pc = "l126"
    /\ Return(t, EmptyDict, node)

\* clear, lines 126-128.
ClearStep(t) ==
    LET f == threads[t] IN
    /\ f.op = "clear"
    /\ CASE f.pc = "l126" ->
              ThreadStep(t, EmptyDict, node, [f EXCEPT !.pc = "l127"], {})
         [] f.pc = "l127" ->
              Return(t, cache,
                     [node EXCEPT ![head].next = tail, ![tail].prev = head])
         [] OTHER -> FALSE

\* size, line 122.
SizeStep(t) ==
    /\ threads[t].op = "size"
    /\ threads[t].pc = "l122"
    /\ Return(t, cache, node)

ThreadCalls(T, ks, caps, ttls) ==
    \/ \E cap \in caps : Construct(cap)
    \/ \E t \in T, k \in ks : GetBegin(t, k)
    \/ \E t \in T, k \in ks, v \in {"v1"}, ttl_ms \in ttls : PutBegin(t, k, v, ttl_ms)
    \/ \E t \in T : ClearBegin(t)
    \/ \E t \in T : SizeBegin(t)
    \/ \E t \in T : GetStep(t)
    \/ \E t \in T : MoveToHeadStep(t)
    \/ \E t \in T : PutStep(t)
    \/ \E t \in T : CleanupStep(t)
    \/ \E t \in T : ClearStep(t)
    \/ \E t \in T : SizeStep(t)
    \/ Tick

\* SpecThreads: two threads call the methods of one cache.
NextThreads == ThreadCalls(Threads, ThreadKeys, ThreadCapacities, ThreadTTLs)

SpecThreads == Init /\ [][NextThreads]_vars

\* SpecOneThread: the methods statement by statement, called by one thread.
NextOneThread == ThreadCalls({"t1"}, Keys, Capacities, ThreadTTLs)

SpecOneThread == Init /\ [][NextOneThread]_vars

\* A thread that can take a step is scheduled in the end.
RunThread(t) ==
    \/ GetStep(t)
    \/ MoveToHeadStep(t)
    \/ PutStep(t)
    \/ CleanupStep(t)
    \/ ClearStep(t)
    \/ SizeStep(t)

SpecOneThreadFair == SpecOneThread /\ WF_vars(RunThread("t1"))

\* ------------------------------------------- claims on the threads
\* No call is running.
Quiescent == \A t \in Threads : threads[t].pc = "idle"

\* The keys on the nodes between head and tail.
LedgerKeys == {node[Ledger[i]].key : i \in 1 .. Len(Ledger)}

\* C28: no built-in thread safety.  As long as every call has run from its
\* first statement to its return with no other call in between, the index
\* and the ledger hold the same keys and size() <= capacity whenever no
\* call is running, and no call raises.  Two calls that overlap can leave
\* the cache, with no call running, in a state where index and ledger hold
\* different keys (C28_Witness) or where size() > capacity.
C28_AtomicCallsKeepConsistent ==
    (constructed /\ Quiescent /\ ~overlapped) =>
        /\ LedgerKeys = DOMAIN cache
        /\ size <= capacity
        /\ Len(Ledger) = Cardinality(DOMAIN cache)
        /\ raised = {}

\* Two calls have overlapped, both have returned and none has raised, and
\* the ledger does not hold the keys of the index.
C28_Witness ==
    /\ constructed
    /\ Quiescent
    /\ overlapped
    /\ raised = {}
    /\ LedgerKeys # DOMAIN cache

\* The call of thread t has finished the scan of lines 64-66 in this step.
ScanDone(t) == threads[t].pc = "l64" /\ threads'[t].pc = "l68"

\* C29: every cache operation terminates.  A call of get, put, size or
\* clear, once entered, returns, and it returns without raising; the scan
\* that put's sweep makes has examined, when it ends, every tracked record
\* once and no other, which is at most capacity records.
C29_OperationsTerminate ==
    /\ (threads["t1"].pc # "idle") ~> (threads["t1"].pc = "idle")
    /\ [](raised = {})
    /\ [][ScanDone("t1") =>
            LET scanned == threads["t1"].scanned IN
            /\ \A i, j \in 1 .. Len(scanned) : scanned[i] = scanned[j] => i = j
            /\ {scanned[i] : i \in 1 .. Len(scanned)} = DOMAIN cache
            /\ Len(scanned) <= capacity
         ]_vars

\* A put into a full cache of two has scanned both records, found one
\* expired, and stands before the loop that removes it.
C29_Witness ==
    /\ threads["t1"].op = "put"
    /\ threads["t1"].pc = "l68"
    /\ Len(threads["t1"].scanned) = 2
    /\ Len(threads["t1"].expired_keys) = 1
    /\ capacity = 2

\* C34: pop_back (_remove_tail) on a ledger with no real record fails by
\* returning "empty".  Whenever a put runs line 114 while tail.prev is the
\* head sentinel, _remove_tail returns to put, which goes on to line 115,
\* no sentinel is detached, and head and tail stay linked to each other.
\* The code has no such return: _remove_node(head) raises AttributeError
\* on head.prev (None) and the put ends there.
C34_PopBackOnEmptyReturnsEmpty ==
    [][\A t \in Threads :
          (/\ threads[t].pc = "l114"
           /\ threads'[t] # threads[t]
           /\ lru_node(node) = head)
             => /\ threads'[t].pc = "l115"
                /\ raised' = raised
                /\ node'[head] = node[head]
                /\ node'[tail] = node[tail]
                /\ node'[head].next = tail
                /\ node'[tail].prev = head]_vars

\* C35: eviction never touches a sentinel.  With calls made one after
\* another: whenever put is about to call _remove_tail (line 114) the
\* ledger holds a real record, the node before tail is that record and the
\* index maps its key to it; when put deletes the key of the node
\* _remove_tail returned (line 115) that node is a real record and its key
\* is in the index, so neither statement raises; and in every state
\* head.prev and tail.next are unset and the index refers to no sentinel.
C35_EvictionNeverTouchesSentinel ==
    constructed =>
        /\ node[head].prev = None
        /\ node[tail].next = None
        /\ \A k \in DOMAIN cache : cache[k] \in NodeIds
        /\ raised = {}
        /\ \A t \in Threads :
              /\ threads[t].pc = "l114" =>
                    /\ Ledger # <<>>
                    /\ lru_node(node) \in NodeIds
                    /\ node[lru_node(node)].key \in DOMAIN cache
                    /\ cache[node[lru_node(node)].key] = lru_node(node)
              /\ threads[t].pc = "l115" =>
                    /\ threads[t].lru_node \in NodeIds
                    /\ node[threads[t].lru_node].key \in DOMAIN cache
                    /\ threads[t].lru_node \notin {Ledger[i] : i \in 1 .. Len(Ledger)}

\* A put into a full cache of two live records has unlinked the least
\* recently used one and is about to delete its key from the index.
C35_Witness ==
    /\ constructed
    /\ threads["t1"].op = "put"
    /\ threads["t1"].pc = "l115"
    /\ capacity = 2
    /\ Len(Ledger) = 1
    /\ Cardinality(DOMAIN cache) = 2
    /\ node[threads["t1"].lru_node].key \in DOMAIN cache

====
